---- MODULE Spec2Model ----
(***************************************************************************)
(* A model of the repository manager UI (the list panel, the add form and  *)
(* the edit form) and of the two cheatsheet maintenance scripts            *)
(* (audit-cheatsheets.ts, audit-icons.ts).                                 *)
(*                                                                         *)
(* Text is modelled as a sequence of one-character strings, so that trim,  *)
(* sort and the regular expressions of the source are computed and not     *)
(* assumed.  The UI components are analysed one at a time: `component'     *)
(* names the component a behaviour follows (Spec).  The scripts are        *)
(* analysed the same way: `script' names the script that runs              *)
(* (SpecScripts).                                                          *)
(***************************************************************************)
EXTENDS Integers, Sequences, FiniteSets, TLC

VARIABLES
    component,      \* "panel" | "add" | "edit" | "none": the UI component followed
    store,          \* the service's repository records (the backing store)
    repos,          \* ManageReposWithAuth: useState<UserRepository[]>([])
    isLoading,      \* ManageReposWithAuth: useState(true)
    ops,            \* the panel's asynchronous operations, in the order they started
    calls,          \* every service call made so far (a log)
    toasts,         \* number of showFailureToast calls so far
    failures,       \* number of service calls that rejected so far
    formOpen,       \* whether the add / edit form is mounted
    value,          \* add form: the six useDraftPersistence values
    LocalStorage,   \* add form: the draft store, key -> stored value or Undefined
    getItem,        \* add form: the pending LocalStorage.getItem promise of each hook
    lastEntered,    \* add form: what updateValue was last called with, per field
    cleared,        \* add form: per field, what cleared its draft since it was entered
    touched,        \* add form: fields edited or reset since the form was opened
    formData,       \* edit form: useState({name, owner, description, url, defaultBranch})
    repo,           \* edit form: the `repo' prop
    isSubmitting,   \* add / edit form: useState(false)
    showErrors,     \* add / edit form: useState(false)
    submits,        \* add / edit form: the handleSubmit calls, in the order they started
    popped,         \* number of pop() calls made by handleSubmit
    notified,       \* number of onAdded() / onUpdated() calls
    nEdits,         \* number of field edits so far
    nOpens,         \* number of times the form was opened
    script,         \* which script runs: audit-cheatsheets.ts or audit-icons.ts
    scriptPc,       \* scripts: where main() is
    exitCode,       \* scripts: the status the last process ended with, <<>> when none has ended
    runs,           \* scripts: number of times the script has been started
    today,          \* scripts: new Date().toISOString().split('T')[0]
    cheatsheetsDir, \* assets/cheatsheets: the files in it, name -> file
    archiveDir,     \* assets/cheatsheets/_archive: the files in it, name -> file
    indexJson,      \* assets/cheatsheets/index.json
    files,          \* auditCheatsheets: the sorted file names
    cursor,         \* the position of the running for-of loop
    result,         \* auditCheatsheets: { kept, updated, archived }
    audited,        \* the files the audit loop has read in this run, and what it did with them (a log)
    assetsDir,      \* assets: the names of the files in it
    iconArchive,    \* assets/_archive: the names of the icons in it
    missingIconsTxt, \* assets/missing-icons.txt
    activeCheatsheets, \* analyzeIcons: getActiveCheatsheets()
    existingIcons,  \* analyzeIcons: getExistingIcons()
    requiredIcons,  \* analyzeIcons: new Set<string>()
    missingIcons,   \* analyzeIcons: the missing list, sorted when returned
    unusedIcons,    \* analyzeIcons: the unused list
    resolved        \* every findIconForCheatsheet call and its result (a log)

panelVars == <<store, repos, isLoading, ops>>

formVars == <<formOpen, value, LocalStorage, getItem, lastEntered, cleared, touched,
              formData, repo, isSubmitting, showErrors, submits, popped, notified,
              nEdits, nOpens>>

logVars == <<calls, toasts, failures>>

uiVars == <<component, panelVars, formVars, logVars>>

runVars == <<script, scriptPc, exitCode, runs, today, cursor>>

auditVars == <<cheatsheetsDir, archiveDir, indexJson, files, result, audited>>

iconVars == <<assetsDir, iconArchive, missingIconsTxt, activeCheatsheets, existingIcons,
              requiredIcons, missingIcons, unusedIcons, resolved>>

scriptVars == <<runVars, auditVars, iconVars>>

vars == <<uiVars, scriptVars>>

(***************************************************************************)
(* Bounds of the model.                                                    *)
(***************************************************************************)
MaxOps == 3
MaxRepos == 2
MaxActions == 4

(***************************************************************************)
(* Text.                                                                   *)
(***************************************************************************)
\* `undefined': a value no text equals.
Undefined == <<"undefined">>

IsWhitespace(c) == c \in {" ", "\n", "\t"}

RECURSIVE trimStart(_)
trimStart(s) ==
    IF s # <<>> /\ IsWhitespace(Head(s)) THEN trimStart(Tail(s)) ELSE s

RECURSIVE trimEnd(_)
trimEnd(s) ==
    IF s # <<>> /\ IsWhitespace(s[Len(s)]) THEN trimEnd(SubSeq(s, 1, Len(s) - 1)) ELSE s

\* String.prototype.trim
trim(s) == trimEnd(trimStart(s))

\* values.x?.trim(): undefined stays undefined
optTrim(s) == IF s = Undefined THEN Undefined ELSE trim(s)

\* !x for a string or undefined
Falsy(s) == s = Undefined \/ s = <<>>

\* x || undefined
orUndefined(s) == IF Falsy(s) THEN Undefined ELSE s

(***************************************************************************)
(* The service module (./service): the backing store behind the UI.  Its   *)
(* calls are asynchronous; each one later resolves or rejects.             *)
(***************************************************************************)
RepoIds == 1 .. MaxRepos

\* The records the store may hold: the tracked repositories and, of those,
\* the ones that carry a lastSyncedAt stamp.
Stores == UNION { { [ids |-> i, synced |-> s] : s \in SUBSET i } : i \in SUBSET RepoIds }

\* Service.getUserRepositories(): the records of the store
getUserRepositories(st) == st

\* Service.removeUserRepository(id)
removeUserRepository(st, id) ==
    [ids |-> st.ids \ {id}, synced |-> st.synced \ {id}]

\* Service.syncRepositoryFiles(repo, token)
syncRepositoryFiles(st, id) ==
    IF id \in st.ids THEN [st EXCEPT !.synced = @ \cup {id}] ELSE st

(***************************************************************************)
(* ManageReposWithAuth: the list panel.                                    *)
(***************************************************************************)
NoRepos == [ids |-> {}, synced |-> {}]

\* An operation: the handler that runs, the call it awaits, the repository it
\* is about, the answer of its confirmation, and, once it has called
\* Service.getUserRepositories, the number of that call and what the call returns.
Op(fn, pc, id, confirmed, loadNo, returned) ==
    [fn |-> fn, pc |-> pc, id |-> id, confirmed |-> confirmed, loadNo |-> loadNo,
     result |-> returned]

Call(fn, op, arg) == [fn |-> fn, op |-> op, arg |-> arg]

OpIds == 1 .. Len(ops)

Awaiting(o, what) == o \in OpIds /\ ops[o].pc = what

\* The operations that have called Service.getUserRepositories and await it.
PendingLoads == { o \in OpIds : ops[o].pc = "getUserRepositories" }

Quiescent == \A o \in OpIds : ops[o].pc \in {"done", "failed"}

\* The number of Service.getUserRepositories calls made so far.
LoadsStarted == Cardinality({ c \in calls : c.fn = "getUserRepositories" })

\* loadRepos(), from the Refresh action: setIsLoading(true), then the call
loadRepos ==
    /\ component = "panel"
    /\ Len(ops) < MaxOps
    /\ isLoading' = TRUE
    /\ ops' = Append(ops, Op("loadRepos", "getUserRepositories", 0, "na",
                             LoadsStarted + 1, getUserRepositories(store)))
    /\ calls' = calls \cup {Call("getUserRepositories", Len(ops) + 1, 0)}
    /\ UNCHANGED <<scriptVars, component, store, repos, toasts, failures, formVars>>

\* loadRepos(): the awaited call resolves: setRepos(userRepos); finally setIsLoading(false)
getUserRepositories_resolve(o) ==
    /\ Awaiting(o, "getUserRepositories")
    /\ repos' = ops[o].result
    /\ isLoading' = FALSE
    /\ ops' = [ops EXCEPT ![o].pc = "done"]
    /\ UNCHANGED <<scriptVars, component, store, logVars, formVars>>

\* Mutant of getUserRepositories_reject: the catch block empties the list.
getUserRepositories_reject_clears(o) ==
    /\ Awaiting(o, "getUserRepositories")
    /\ toasts' = toasts + 1
    /\ failures' = failures + 1
    /\ isLoading' = FALSE
    /\ repos' = NoRepos
    /\ ops' = [ops EXCEPT ![o].pc = "failed"]
    /\ UNCHANGED <<scriptVars, component, store, calls, formVars>>

\* loadRepos(): the awaited call rejects: showFailureToast; finally setIsLoading(false)
getUserRepositories_reject(o) ==
    /\ Awaiting(o, "getUserRepositories")
    /\ toasts' = toasts + 1
    /\ failures' = failures + 1
    /\ isLoading' = FALSE
    /\ ops' = [ops EXCEPT ![o].pc = "failed"]
    /\ UNCHANGED <<scriptVars, component, store, repos, calls, formVars>>

\* handleDeleteRepo(id, name, owner), from the Remove Repository action of a
\* displayed item: await confirmAlert(...)
handleDeleteRepo(id) ==
    /\ component = "panel"
    /\ Len(ops) < MaxOps
    /\ id \in repos.ids
    /\ ops' = Append(ops, Op("handleDeleteRepo", "confirmAlert", id, "pending", 0, NoRepos))
    /\ UNCHANGED <<scriptVars, component, store, repos, isLoading, logVars, formVars>>

\* Mutant of confirmAlert_resolve: the answer is not looked at.
confirmAlert_resolve_unchecked(o, confirmed) ==
    /\ Awaiting(o, "confirmAlert")
    /\ ops' = [ops EXCEPT ![o].pc = "removeUserRepository",
                          ![o].confirmed = IF confirmed THEN "yes" ELSE "no"]
    /\ calls' = calls \cup {Call("removeUserRepository", o, ops[o].id)}
    /\ UNCHANGED <<scriptVars, component, store, repos, isLoading, toasts, failures, formVars>>

\* handleDeleteRepo: confirmAlert resolves; if (confirmed) the remove call is made
confirmAlert_resolve(o, confirmed) ==
    /\ Awaiting(o, "confirmAlert")
    /\ IF confirmed
       THEN /\ ops' = [ops EXCEPT ![o].pc = "removeUserRepository", ![o].confirmed = "yes"]
            /\ calls' = calls \cup {Call("removeUserRepository", o, ops[o].id)}
       ELSE /\ ops' = [ops EXCEPT ![o].pc = "done", ![o].confirmed = "no"]
            /\ calls' = calls
    /\ UNCHANGED <<scriptVars, component, store, repos, isLoading, toasts, failures, formVars>>

\* Mutant of removeUserRepository_resolve: the handler ends without reloading.
removeUserRepository_resolve_noReload(o) ==
    /\ Awaiting(o, "removeUserRepository")
    /\ store' = removeUserRepository(store, ops[o].id)
    /\ ops' = [ops EXCEPT ![o].pc = "done"]
    /\ UNCHANGED <<scriptVars, component, repos, isLoading, logVars, formVars>>

\* handleDeleteRepo: the remove call resolves; await loadRepos()
removeUserRepository_resolve(o) ==
    /\ Awaiting(o, "removeUserRepository")
    /\ store' = removeUserRepository(store, ops[o].id)
    /\ isLoading' = TRUE
    /\ ops' = [ops EXCEPT ![o].pc = "getUserRepositories",
                          ![o].loadNo = LoadsStarted + 1,
                          ![o].result = getUserRepositories(store')]
    /\ calls' = calls \cup {Call("getUserRepositories", o, 0)}
    /\ UNCHANGED <<scriptVars, component, repos, toasts, failures, formVars>>

\* handleDeleteRepo: the remove call rejects; showFailureToast
removeUserRepository_reject(o) ==
    /\ Awaiting(o, "removeUserRepository")
    /\ toasts' = toasts + 1
    /\ failures' = failures + 1
    /\ ops' = [ops EXCEPT ![o].pc = "failed"]
    /\ UNCHANGED <<scriptVars, component, store, repos, isLoading, calls, formVars>>

\* The Sync Repository action of a displayed item: await Service.syncRepositoryFiles
SyncRepository_onAction(id) ==
    /\ component = "panel"
    /\ Len(ops) < MaxOps
    /\ id \in repos.ids
    /\ ops' = Append(ops, Op("SyncRepository", "syncRepositoryFiles", id, "na", 0, NoRepos))
    /\ calls' = calls \cup {Call("syncRepositoryFiles", Len(ops) + 1, id)}
    /\ UNCHANGED <<scriptVars, component, store, repos, isLoading, toasts, failures, formVars>>

\* Sync Repository: the sync call resolves; await loadRepos()
syncRepositoryFiles_resolve(o) ==
    /\ Awaiting(o, "syncRepositoryFiles")
    /\ store' = syncRepositoryFiles(store, ops[o].id)
    /\ isLoading' = TRUE
    /\ ops' = [ops EXCEPT ![o].pc = "getUserRepositories",
                          ![o].loadNo = LoadsStarted + 1,
                          ![o].result = getUserRepositories(store')]
    /\ calls' = calls \cup {Call("getUserRepositories", o, 0)}
    /\ UNCHANGED <<scriptVars, component, repos, toasts, failures, formVars>>

\* Sync Repository: the sync call rejects; showFailureToast
syncRepositoryFiles_reject(o) ==
    /\ Awaiting(o, "syncRepositoryFiles")
    /\ toasts' = toasts + 1
    /\ failures' = failures + 1
    /\ ops' = [ops EXCEPT ![o].pc = "failed"]
    /\ UNCHANGED <<scriptVars, component, store, repos, isLoading, calls, formVars>>

(***************************************************************************)
(* State shared by the two forms.                                          *)
(***************************************************************************)
True == <<"true">>
False == <<"false">>
Main == <<"m", "a", "i", "n">>

SubmitIds == 1 .. Len(submits)

\* What the user has done to the forms so far: openings, field edits, submits.
UserActions == nOpens + nEdits + Len(submits)

EditFields == {"name", "owner", "description", "url", "defaultBranch"}

\* The edit form's state while no edit form is mounted.
NoFormData == [f \in EditFields |-> <<>>]

\* A handleSubmit call belongs to the form instance that was mounted when it
\* started; its state setters act on that instance only.
Live(k) == formOpen /\ submits[k].instance = nOpens

\* A handleSubmit call: the form instance it belongs to, the call it awaits
\* or how it ended, the values it was given, the record the form was opened
\* for, whether any field had been edited, and the calls it has made after
\* its await, in the order it made them.
Submit(pc, values) ==
    [instance |-> nOpens, pc |-> pc, values |-> values, repo |-> repo,
     untouched |-> touched = {}, steps |-> <<>>]

\* What Action.SubmitForm hands to onSubmit: the fields' current values; the
\* handlers guard name and owner with ?., so either may also be missing.
SubmittedValues(current) ==
    {current, [current EXCEPT !.name = Undefined], [current EXCEPT !.owner = Undefined]}

\* Mutant of Invalid: the validation forgets to trim.
Invalid_untrimmed(values) == Falsy(values.name) \/ Falsy(values.owner)

\* Client-side validation: !values.name?.trim() || !values.owner?.trim()
Invalid(values) == Falsy(optTrim(values.name)) \/ Falsy(optTrim(values.owner))

(***************************************************************************)
(* AddRepositoryForm and its useDraftPersistence hooks.                    *)
(***************************************************************************)
AddFields == {"name", "owner", "description", "url", "isPrivate", "defaultBranch"}

\* useDraftPersistence(key, defaultValue): the key of each field
DraftKey ==
    [name |-> "add-repo-name", owner |-> "add-repo-owner",
     description |-> "add-repo-description", url |-> "add-repo-url",
     isPrivate |-> "add-repo-private", defaultBranch |-> "add-repo-branch"]

\* useDraftPersistence(key, defaultValue): the default of each field
defaultValue ==
    [name |-> <<>>, owner |-> <<>>, description |-> <<>>, url |-> <<>>,
     isPrivate |-> False, defaultBranch |-> Main]

DraftKeys == { DraftKey[f] : f \in AddFields }

NoDrafts == [k \in DraftKeys |-> Undefined]

NotEntered == <<"not entered">>

\* What the user may put into a field.
Typed(f) ==
    CASE f \in {"name", "owner"} -> {<<>>, <<" ">>, <<"a">>}
      [] f \in {"description", "url"} -> {<<>>, <<"a">>}
      [] f = "isPrivate" -> {True, False}
      [] OTHER -> {Main, <<"a">>}

NoGet == [pending |-> FALSE, stored |-> Undefined]

\* The state of a form that is not mounted.
Unmounted ==
    /\ formOpen' = FALSE
    /\ value' = defaultValue
    /\ getItem' = [f \in AddFields |-> NoGet]
    /\ touched' = {}
    /\ isSubmitting' = FALSE
    /\ showErrors' = FALSE
    /\ formData' = NoFormData

\* The hooks in the order AddRepositoryForm calls them.
HookOrder == <<"name", "owner", "description", "url", "isPrivate", "defaultBranch">>

HookIndex(f) == CHOOSE i \in 1 .. Len(HookOrder) : HookOrder[i] = f

\* The form is pushed: useState(defaultValue) in each hook, and each hook's
\* effect calls LocalStorage.getItem(key).  LocalStorage serves its requests
\* in the order they are made: a getItem promise carries what is stored when
\* the call is made, and the promises settle in the order of the calls.
AddRepositoryForm ==
    /\ component = "add"
    /\ ~formOpen
    /\ UserActions < MaxActions
    /\ formOpen' = TRUE
    /\ nOpens' = nOpens + 1
    /\ value' = defaultValue
    /\ getItem' = [f \in AddFields |-> [pending |-> TRUE, stored |-> LocalStorage[DraftKey[f]]]]
    /\ touched' = {}
    /\ isSubmitting' = FALSE
    /\ showErrors' = FALSE
    /\ UNCHANGED <<scriptVars, component, panelVars, logVars, LocalStorage, lastEntered, cleared,
                   formData, repo, submits, popped, notified, nEdits>>

\* useDraftPersistence: LocalStorage.getItem(key).then((stored) => ...)
getItem_then(f) ==
    /\ component = "add"
    /\ formOpen
    /\ getItem[f].pending
    /\ \A g \in AddFields : HookIndex(g) < HookIndex(f) => ~getItem[g].pending
    /\ LET stored == getItem[f].stored
       IN value' = IF stored # Undefined /\ stored # defaultValue[f]
                   THEN [value EXCEPT ![f] = stored]
                   ELSE value
    /\ getItem' = [getItem EXCEPT ![f] = NoGet]
    /\ UNCHANGED <<scriptVars, component, panelVars, logVars, formOpen, LocalStorage, lastEntered,
                   cleared, touched, formData, repo, isSubmitting, showErrors, submits,
                   popped, notified, nEdits, nOpens>>

\* Mutant of updateValue: the new value is not saved to storage.
updateValue_unsaved(f, newValue) ==
    /\ component = "add"
    /\ formOpen
    /\ UserActions < MaxActions
    /\ newValue # value[f]
    /\ value' = [value EXCEPT ![f] = newValue]
    /\ lastEntered' = [lastEntered EXCEPT ![f] = newValue]
    /\ cleared' = [cleared EXCEPT ![f] = "no"]
    /\ touched' = touched \cup {f}
    /\ nEdits' = nEdits + 1
    /\ UNCHANGED <<scriptVars, component, panelVars, logVars, formOpen, LocalStorage, getItem, formData,
                   repo, isSubmitting, showErrors, submits, popped, notified, nOpens>>

\* useDraftPersistence: updateValue(newValue), the field's onChange
updateValue(f, newValue) ==
    /\ component = "add"
    /\ formOpen
    /\ UserActions < MaxActions
    /\ newValue # value[f]
    /\ value' = [value EXCEPT ![f] = newValue]
    /\ LocalStorage' = [LocalStorage EXCEPT ![DraftKey[f]] = newValue]
    /\ lastEntered' = [lastEntered EXCEPT ![f] = newValue]
    /\ cleared' = [cleared EXCEPT ![f] = "no"]
    /\ touched' = touched \cup {f}
    /\ nEdits' = nEdits + 1
    /\ UNCHANGED <<scriptVars, component, panelVars, logVars, formOpen, getItem, formData, repo,
                   isSubmitting, showErrors, submits, popped, notified, nOpens>>

\* useDraftPersistence: clearDraft() of every hook: LocalStorage.removeItem(key)
clearDraft_removeItem(ls) == [k \in DOMAIN ls |-> Undefined]

\* useDraftPersistence: clearDraft() of every hook: setValue(defaultValue)
clearDraft_setValue(v) == defaultValue

\* The Reset Form action: the six clearDraft calls, then a success toast
ResetForm ==
    /\ component = "add"
    /\ formOpen
    /\ LocalStorage' = clearDraft_removeItem(LocalStorage)
    /\ value' = clearDraft_setValue(value)
    /\ cleared' = [f \in AddFields |-> IF lastEntered[f] = NotEntered THEN cleared[f] ELSE "reset"]
    /\ touched' = AddFields
    /\ UNCHANGED <<scriptVars, component, panelVars, logVars, formOpen, getItem, lastEntered, formData,
                   repo, isSubmitting, showErrors, submits, popped, notified, nEdits, nOpens>>

\* AddRepositoryForm.handleSubmit(values), up to its first await
AddRepositoryForm_handleSubmit(values) ==
    /\ component = "add"
    /\ formOpen
    /\ UserActions < MaxActions
    /\ showErrors' = TRUE
    /\ IF Invalid(values)
       THEN /\ isSubmitting' = FALSE
            /\ submits' = Append(submits, Submit("invalid", values))
            /\ calls' = calls
       ELSE /\ isSubmitting' = TRUE
            /\ submits' = Append(submits, Submit("addUserRepository", values))
            /\ calls' = calls \cup {Call("addUserRepository", Len(submits) + 1, values)}
    /\ UNCHANGED <<scriptVars, component, panelVars, toasts, failures, formOpen, value, LocalStorage,
                   getItem, lastEntered, cleared, touched, formData, repo, popped,
                   notified, nEdits, nOpens>>

\* Mutant of addedSteps: the form is popped before the drafts are cleared.
addedSteps_popFirst ==
    <<"pop", "clearNameDraft", "clearOwnerDraft", "clearDescriptionDraft", "clearUrlDraft",
      "clearIsPrivateDraft", "clearDefaultBranchDraft", "onAdded", "setIsSubmitting">>

\* AddRepositoryForm.handleSubmit: the calls made after the add call has
\* resolved, in their order
addedSteps ==
    <<"clearNameDraft", "clearOwnerDraft", "clearDescriptionDraft", "clearUrlDraft",
      "clearIsPrivateDraft", "clearDefaultBranchDraft", "onAdded", "pop", "setIsSubmitting">>

\* AddRepositoryForm.handleSubmit: the add call resolves: the six clearDraft
\* calls, onAdded(), pop(); finally setIsSubmitting(false)
addUserRepository_resolve(k) ==
    /\ component = "add"
    /\ k \in SubmitIds
    /\ submits[k].pc = "addUserRepository"
    /\ submits' = [submits EXCEPT ![k].pc = "added", ![k].steps = addedSteps]
    /\ LocalStorage' = clearDraft_removeItem(LocalStorage)
    /\ cleared' = [f \in AddFields |-> IF lastEntered[f] = NotEntered THEN cleared[f] ELSE "submit"]
    /\ notified' = notified + 1
    /\ popped' = popped + 1
    /\ Unmounted
    /\ UNCHANGED <<scriptVars, component, panelVars, logVars, lastEntered, repo, nEdits, nOpens>>

\* Mutant of addUserRepository_reject: the finally block is missing.
addUserRepository_reject_submitting(k) ==
    /\ component = "add"
    /\ k \in SubmitIds
    /\ submits[k].pc = "addUserRepository"
    /\ submits' = [submits EXCEPT ![k].pc = "failed",
                                  ![k].steps = <<"showFailureToast", "setIsSubmitting">>]
    /\ toasts' = toasts + 1
    /\ failures' = failures + 1
    /\ UNCHANGED <<scriptVars, component, panelVars, calls, formOpen, value, LocalStorage, getItem,
                   lastEntered, cleared, touched, formData, repo, isSubmitting, showErrors, popped,
                   notified, nEdits, nOpens>>

\* AddRepositoryForm.handleSubmit: the add call rejects: showFailureToast;
\* finally setIsSubmitting(false)
addUserRepository_reject(k) ==
    /\ component = "add"
    /\ k \in SubmitIds
    /\ submits[k].pc = "addUserRepository"
    /\ submits' = [submits EXCEPT ![k].pc = "failed",
                                  ![k].steps = <<"showFailureToast", "setIsSubmitting">>]
    /\ toasts' = toasts + 1
    /\ failures' = failures + 1
    /\ isSubmitting' = IF Live(k) THEN FALSE ELSE isSubmitting
    /\ UNCHANGED <<scriptVars, component, panelVars, calls, formOpen, value, LocalStorage, getItem,
                   lastEntered, cleared, touched, formData, repo, showErrors, popped,
                   notified, nEdits, nOpens>>

\* The form is closed without pop() being called by handleSubmit: the
\* platform's back navigation, or the edit form's Cancel action (onAction={pop})
Cancel ==
    /\ component \in {"add", "edit"}
    /\ formOpen
    /\ Unmounted
    /\ UNCHANGED <<scriptVars, component, panelVars, logVars, LocalStorage, lastEntered, cleared,
                   repo, submits, popped, notified, nEdits, nOpens>>

(***************************************************************************)
(* EditRepositoryForm.                                                     *)
(***************************************************************************)
\* The records an edit form may be opened for.  The add form hands
\* values.name to the service untrimmed, so a stored name may carry
\* whitespace; description is optional.
RepoRecords ==
    { [id |-> i, name |-> n, owner |-> <<"o">>, description |-> d, url |-> <<"u">>,
       defaultBranch |-> Main] :
      i \in {1}, n \in {<<"a">>, <<" ", "a">>}, d \in {Undefined, <<"d">>} }

NoRepo ==
    [id |-> 0, name |-> <<>>, owner |-> <<>>, description |-> Undefined, url |-> <<>>,
     defaultBranch |-> <<>>]

\* EditRepositoryForm: the initial state of formData
initialFormData(r) ==
    [name |-> r.name,
     owner |-> r.owner,
     description |-> IF Falsy(r.description) THEN <<>> ELSE r.description,
     url |-> r.url,
     defaultBranch |-> r.defaultBranch]

\* Mutant of updateArguments: the values are sent as they are.
updateArguments_untrimmed(r, values) ==
    [id |-> r.id,
     updates |-> [name |-> values.name,
                  owner |-> values.owner,
                  description |-> values.description,
                  url |-> values.url,
                  defaultBranch |-> values.defaultBranch]]

\* EditRepositoryForm.handleSubmit: the arguments of Service.updateUserRepository
updateArguments(r, values) ==
    [id |-> r.id,
     updates |-> [name |-> trim(values.name),
                  owner |-> trim(values.owner),
                  description |-> orUndefined(optTrim(values.description)),
                  url |-> orUndefined(optTrim(values.url)),
                  defaultBranch |-> trim(values.defaultBranch)]]

\* The form is pushed for a record: useState({name: repo.name, ...})
EditRepositoryForm(r) ==
    /\ component = "edit"
    /\ ~formOpen
    /\ UserActions < MaxActions
    /\ formOpen' = TRUE
    /\ nOpens' = nOpens + 1
    /\ repo' = r
    /\ formData' = initialFormData(r)
    /\ touched' = {}
    /\ isSubmitting' = FALSE
    /\ showErrors' = FALSE
    /\ UNCHANGED <<scriptVars, component, panelVars, logVars, value, LocalStorage, getItem, lastEntered,
                   cleared, submits, popped, notified, nEdits>>

\* A field's onChange: setFormData({ ...formData, [field]: value })
setFormData(f, newValue) ==
    /\ component = "edit"
    /\ formOpen
    /\ UserActions < MaxActions
    /\ newValue # formData[f]
    /\ formData' = [formData EXCEPT ![f] = newValue]
    /\ touched' = touched \cup {f}
    /\ nEdits' = nEdits + 1
    /\ UNCHANGED <<scriptVars, component, panelVars, logVars, formOpen, value, LocalStorage, getItem,
                   lastEntered, cleared, repo, isSubmitting, showErrors, submits, popped,
                   notified, nOpens>>

\* EditRepositoryForm.handleSubmit(values), up to its first await
EditRepositoryForm_handleSubmit(values) ==
    /\ component = "edit"
    /\ formOpen
    /\ UserActions < MaxActions
    /\ showErrors' = TRUE
    /\ IF Invalid(values)
       THEN /\ isSubmitting' = FALSE
            /\ submits' = Append(submits, Submit("invalid", values))
            /\ calls' = calls
       ELSE /\ isSubmitting' = TRUE
            /\ submits' = Append(submits, Submit("updateUserRepository", values))
            /\ calls' = calls \cup {Call("updateUserRepository", Len(submits) + 1,
                                         updateArguments(repo, values))}
    /\ UNCHANGED <<scriptVars, component, panelVars, toasts, failures, formOpen, value, LocalStorage,
                   getItem, lastEntered, cleared, touched, formData, repo, popped,
                   notified, nEdits, nOpens>>

\* EditRepositoryForm.handleSubmit: the update call resolves: onUpdated(),
\* pop(); finally setIsSubmitting(false)
updateUserRepository_resolve(k) ==
    /\ component = "edit"
    /\ k \in SubmitIds
    /\ submits[k].pc = "updateUserRepository"
    /\ submits' = [submits EXCEPT ![k].pc = "updated",
                                  ![k].steps = <<"onUpdated", "pop", "setIsSubmitting">>]
    /\ notified' = notified + 1
    /\ popped' = popped + 1
    /\ Unmounted
    /\ UNCHANGED <<scriptVars, component, panelVars, logVars, LocalStorage, lastEntered, cleared, repo,
                   nEdits, nOpens>>

\* EditRepositoryForm.handleSubmit: the update call rejects: showFailureToast;
\* finally setIsSubmitting(false)
updateUserRepository_reject(k) ==
    /\ component = "edit"
    /\ k \in SubmitIds
    /\ submits[k].pc = "updateUserRepository"
    /\ submits' = [submits EXCEPT ![k].pc = "failed",
                                  ![k].steps = <<"showFailureToast", "setIsSubmitting">>]
    /\ toasts' = toasts + 1
    /\ failures' = failures + 1
    /\ isSubmitting' = IF Live(k) THEN FALSE ELSE isSubmitting
    /\ UNCHANGED <<scriptVars, component, panelVars, calls, formOpen, value, LocalStorage, getItem,
                   lastEntered, cleared, touched, formData, repo, showErrors, popped,
                   notified, nEdits, nOpens>>

(***************************************************************************)
(* The UI: one component per behaviour.                                    *)
(***************************************************************************)
\* No script is run.
ScriptsIdle ==
    /\ script = "none"
    /\ scriptPc = "idle"
    /\ exitCode = <<>>
    /\ runs = 0
    /\ today = 1
    /\ cursor = 1
    /\ cheatsheetsDir = <<>>
    /\ archiveDir = <<>>
    /\ indexJson = [exists |-> FALSE, data |-> <<>>]
    /\ files = <<>>
    /\ result = [kept |-> <<>>, updated |-> <<>>, archived |-> <<>>]
    /\ audited = {}
    /\ assetsDir = {}
    /\ iconArchive = {}
    /\ missingIconsTxt = [exists |-> FALSE, data |-> <<>>]
    /\ activeCheatsheets = <<>>
    /\ existingIcons = <<>>
    /\ requiredIcons = {}
    /\ missingIcons = <<>>
    /\ unusedIcons = <<>>
    /\ resolved = {}

FormsIdle ==
    /\ formOpen = FALSE
    /\ value = defaultValue
    /\ LocalStorage = NoDrafts
    /\ getItem = [f \in AddFields |-> NoGet]
    /\ lastEntered = [f \in AddFields |-> NotEntered]
    /\ cleared = [f \in AddFields |-> "no"]
    /\ touched = {}
    /\ formData = NoFormData
    /\ repo = NoRepo
    /\ isSubmitting = FALSE
    /\ showErrors = FALSE
    /\ submits = <<>>
    /\ popped = 0
    /\ notified = 0
    /\ nEdits = 0
    /\ nOpens = 0

\* The panel is mounted: useState([]), useState(true), and the effect has
\* called loadRepos().
InitPanel ==
    /\ component = "panel"
    /\ store \in Stores
    /\ repos = NoRepos
    /\ isLoading = TRUE
    /\ ops = <<Op("loadRepos", "getUserRepositories", 0, "na", 1, getUserRepositories(store))>>
    /\ calls = {Call("getUserRepositories", 1, 0)}
    /\ toasts = 0
    /\ failures = 0
    /\ FormsIdle
    /\ ScriptsIdle

PanelIdle ==
    /\ store = NoRepos
    /\ repos = NoRepos
    /\ isLoading = FALSE
    /\ ops = <<>>
    /\ calls = {}
    /\ toasts = 0
    /\ failures = 0

InitAdd == component = "add" /\ PanelIdle /\ FormsIdle /\ ScriptsIdle

InitEdit == component = "edit" /\ PanelIdle /\ FormsIdle /\ ScriptsIdle

Init == InitPanel \/ InitAdd \/ InitEdit

Next ==
    \/ loadRepos
    \/ \E o \in OpIds : getUserRepositories_resolve(o)
    \/ \E o \in OpIds : getUserRepositories_reject(o)
    \/ \E id \in RepoIds : handleDeleteRepo(id)
    \/ \E o \in OpIds, confirmed \in BOOLEAN : confirmAlert_resolve(o, confirmed)
    \/ \E o \in OpIds : removeUserRepository_resolve(o)
    \/ \E o \in OpIds : removeUserRepository_reject(o)
    \/ \E id \in RepoIds : SyncRepository_onAction(id)
    \/ \E o \in OpIds : syncRepositoryFiles_resolve(o)
    \/ \E o \in OpIds : syncRepositoryFiles_reject(o)
    \/ AddRepositoryForm
    \/ \E f \in AddFields : getItem_then(f)
    \/ \E f \in AddFields : \E v \in Typed(f) : updateValue(f, v)
    \/ ResetForm
    \/ \E values \in SubmittedValues(value) : AddRepositoryForm_handleSubmit(values)
    \/ \E k \in SubmitIds : addUserRepository_resolve(k)
    \/ \E k \in SubmitIds : addUserRepository_reject(k)
    \/ Cancel
    \/ \E r \in RepoRecords : EditRepositoryForm(r)
    \/ \E f \in EditFields : \E v \in Typed(f) : setFormData(f, v)
    \/ \E values \in SubmittedValues(formData) : EditRepositoryForm_handleSubmit(values)
    \/ \E k \in SubmitIds : updateUserRepository_resolve(k)
    \/ \E k \in SubmitIds : updateUserRepository_reject(k)

Spec == Init /\ [][Next]_vars

(***************************************************************************)
(* The forms, with every service call settling.                            *)
(***************************************************************************)
InitForms == InitAdd \/ InitEdit

NextForms ==
    \/ AddRepositoryForm
    \/ \E f \in AddFields : getItem_then(f)
    \/ \E f \in AddFields : \E v \in Typed(f) : updateValue(f, v)
    \/ ResetForm
    \/ \E values \in SubmittedValues(value) : AddRepositoryForm_handleSubmit(values)
    \/ \E k \in SubmitIds : addUserRepository_resolve(k)
    \/ \E k \in SubmitIds : addUserRepository_reject(k)
    \/ Cancel
    \/ \E r \in RepoRecords : EditRepositoryForm(r)
    \/ \E f \in EditFields : \E v \in Typed(f) : setFormData(f, v)
    \/ \E values \in SubmittedValues(formData) : EditRepositoryForm_handleSubmit(values)
    \/ \E k \in SubmitIds : updateUserRepository_resolve(k)
    \/ \E k \in SubmitIds : updateUserRepository_reject(k)

\* The promise of a service call a handleSubmit awaits is settled: it
\* resolves or it rejects
Settles(k) ==
    \/ addUserRepository_resolve(k)
    \/ addUserRepository_reject(k)
    \/ updateUserRepository_resolve(k)
    \/ updateUserRepository_reject(k)

\* Every service call a handleSubmit awaits settles
SpecForms ==
    InitForms /\ [][NextForms]_vars /\ \A k \in 1 .. MaxActions : WF_vars(Settles(k))

(***************************************************************************)
(* Text of the scripts: case, order, search.                               *)
(***************************************************************************)
LowerCaseLetters ==
    <<"a", "b", "c", "d", "e", "f", "g", "h", "i", "j", "k", "l", "m",
      "n", "o", "p", "q", "r", "s", "t", "u", "v", "w", "x", "y", "z">>

UpperCaseLetters ==
    <<"A", "B", "C", "D", "E", "F", "G", "H", "I", "J", "K", "L", "M",
      "N", "O", "P", "Q", "R", "S", "T", "U", "V", "W", "X", "Y", "Z">>

Digits == <<"0", "1", "2", "3", "4", "5", "6", "7", "8", "9">>

\* The characters of the model in the order of their UTF-16 code units.
CharOrder ==
    <<"\n", " ", "#", "'">> \o <<"-", ".">> \o Digits \o <<":", "@">>
      \o UpperCaseLetters \o <<"_">> \o LowerCaseLetters

Range(s) == { s[i] : i \in 1 .. Len(s) }

CharCode == [c \in Range(CharOrder) |-> CHOOSE i \in 1 .. Len(CharOrder) : CharOrder[i] = c]

UpperCase == Range(UpperCaseLetters)

LowerCase == Range(LowerCaseLetters)

\* The lower-case letter of each upper-case letter
LowerCaseOf ==
    [c \in UpperCase |->
        LowerCaseLetters[CHOOSE i \in 1 .. Len(UpperCaseLetters) : UpperCaseLetters[i] = c]]

\* The upper-case letter of each lower-case letter
UpperCaseOf ==
    [c \in LowerCase |->
        UpperCaseLetters[CHOOSE i \in 1 .. Len(LowerCaseLetters) : LowerCaseLetters[i] = c]]

\* String.prototype.toLowerCase, per character
toLowerCase(c) == IF c \in UpperCase THEN LowerCaseOf[c] ELSE c

\* String.prototype.toUpperCase, per character
toUpperCase(c) == IF c \in LowerCase THEN UpperCaseOf[c] ELSE c

\* a < b as JavaScript compares strings: by code unit, a prefix first
RECURSIVE StringLess(_, _)
StringLess(a, b) ==
    IF b = <<>> THEN FALSE
    ELSE IF a = <<>> THEN TRUE
    ELSE IF Head(a) = Head(b) THEN StringLess(Tail(a), Tail(b))
    ELSE CharCode[Head(a)] < CharCode[Head(b)]

\* t occurs in s at position i
LiteralAt(s, t, i) ==
    /\ i >= 1
    /\ i + Len(t) - 1 <= Len(s)
    /\ \A n \in 1 .. Len(t) : s[i + n - 1] = t[n]

\* t occurs in s at position i, letter case ignored (the i flag)
LiteralAtIgnoreCase(s, t, i) ==
    /\ i >= 1
    /\ i + Len(t) - 1 <= Len(s)
    /\ \A n \in 1 .. Len(t) : toLowerCase(s[i + n - 1]) = toLowerCase(t[n])

startsWith(s, t) == LiteralAt(s, t, 1)

endsWith(s, t) == LiteralAt(s, t, Len(s) - Len(t) + 1)

includes(s, t) == \E i \in 1 .. Len(s) + 1 : LiteralAt(s, t, i)

\* The position of the first occurrence of character c in s, or 0
indexOf(s, c) ==
    IF c \in Range(s) THEN CHOOSE i \in 1 .. Len(s) : s[i] = c /\ \A n \in 1 .. i - 1 : s[n] # c
    ELSE 0

\* The concatenation of a sequence of strings
RECURSIVE Concat(_)
Concat(ss) == IF ss = <<>> THEN <<>> ELSE Head(ss) \o Concat(Tail(ss))

DotMd == <<".", "m", "d">>

\* path.basename(filename, '.md') of a file name without directories
basename(filename) ==
    IF endsWith(filename, DotMd) /\ filename # DotMd
    THEN SubSeq(filename, 1, Len(filename) - Len(DotMd))
    ELSE filename

\* The rest of a /a.*b.*c/i match: each further piece occurs after the
\* previous one, with no line break between them (`.' matches none)
RECURSIVE RestMatches(_, _, _)
RestMatches(s, pieces, from) ==
    \/ pieces = <<>>
    \/ \E j \in from .. Len(s) :
          /\ \A n \in from .. j - 1 : s[n] # "\n"
          /\ LiteralAtIgnoreCase(s, Head(pieces), j)
          /\ RestMatches(s, Tail(pieces), j + Len(Head(pieces)))

\* pattern.test(s) for a pattern of OUTDATED_PATTERNS
test(pattern, s) ==
    \E i \in 1 .. Len(s) :
        /\ LiteralAtIgnoreCase(s, Head(pattern), i)
        /\ RestMatches(s, Tail(pattern), i + Len(Head(pattern)))

\* pattern.test(s) for a pattern of ICON_PATTERNS: one of its alternatives
\* occurs, at the start if it is anchored
testIcon(pattern, s) ==
    \E a \in 1 .. Len(pattern) :
        IF pattern[a].anchored
        THEN LiteralAt(s, pattern[a].text, 1)
        ELSE includes(s, pattern[a].text)

(***************************************************************************)
(* The static tables of the scripts.                                       *)
(***************************************************************************)
\* OUTDATED_TECHS: the base names of outdated technologies
OUTDATED_TECHS ==
    {
      <<"a", "n", "g", "u", "l", "a", "r", "j", "s">>, <<"b", "o", "w", "e", "r">>,
      <<"g", "r", "u", "n", "t">>, <<"g", "u", "l", "p", "3">>,
      <<"t", "s", "l", "i", "n", "t">>, <<"b", "a", "b", "e", "l", "6">>,
      <<"j", "a", "s", "m", "i", "n", "e", "1">>, <<"m", "o", "c", "h", "a", "1">>,
      <<"k", "a", "r", "m", "a">>, <<"b", "r", "o", "w", "s", "e", "r", "i", "f", "y">>,
      <<"s", "y", "s", "t", "e", "m", "j", "s">>, <<"j", "s", "p", "m">>,
      <<"b", "r", "o", "w", "s", "e", "r", "-", "s", "y", "n", "c">>,
      <<"l", "i", "v", "e", "-", "r", "e", "l", "o", "a", "d">>,
      <<"n", "o", "d", "e", "m", "o", "n">>, <<"p", "m", "2">>,
      <<"f", "o", "r", "e", "v", "e", "r">>,
      <<"s", "u", "p", "e", "r", "v", "i", "s", "o", "r">>,
      <<"n", "o", "d", "e", "m", "o", "n">>,
      <<"g", "r", "u", "n", "t", "-", "c", "o", "n", "t", "r", "i", "b">>,
      <<"g", "u", "l", "p", "-", "c", "o", "n", "t", "r", "i", "b">>,
      <<"y", "e", "o", "m", "a", "n">>,
      <<"b", "o", "w", "e", "r", "-", "i", "n", "s", "t", "a", "l", "l", "e", "r">>,
      <<"c", "o", "m", "p", "o", "n", "e", "n", "t">>, <<"d", "u", "o">>, <<"j", "a", "m">>,
      <<"v", "o", "l", "o">>, <<"e", "n", "d", "e", "r">>, <<"s", "p", "m">>,
      <<"c", "o", "m", "p", "o", "n", "e", "n", "t", "j", "s">>, <<"j", "a", "m", "j", "s">>,
      <<"v", "o", "l", "o", "j", "s">>, <<"e", "n", "d", "e", "r", "j", "s">>,
      <<"s", "p", "m", "j", "s">>
    }

\* OUTDATED_PATTERNS: each /a.*b\./i is the sequence of its literal pieces,
\* <<a, b.>>, which `.*' separates
OUTDATED_PATTERNS ==
    <<
      <<<<"a", "n", "g", "u", "l", "a", "r", "j", "s">>, <<"1", ".">>>>,
      <<<<"r", "e", "a", "c", "t">>, <<"0", ".">>>>,
      <<<<"v", "u", "e">>, <<"1", ".">>>>,
      <<<<"e", "m", "b", "e", "r">>, <<"1", ".">>>>,
      <<<<"b", "a", "c", "k", "b", "o", "n", "e">>, <<"0", ".">>>>,
      <<<<"j", "q", "u", "e", "r", "y">>, <<"1", ".">>>>,
      <<<<"b", "o", "o", "t", "s", "t", "r", "a", "p">>, <<"2", ".">>>>,
      <<<<"b", "o", "o", "t", "s", "t", "r", "a", "p">>, <<"3", ".">>>>,
      <<<<"n", "o", "d", "e">>, <<"0", ".">>>>,
      <<<<"n", "o", "d", "e">>, <<"4", ".">>>>,
      <<<<"n", "o", "d", "e">>, <<"6", ".">>>>,
      <<<<"n", "o", "d", "e">>, <<"8", ".">>>>,
      <<<<"n", "o", "d", "e">>, <<"1", "0", ".">>>>,
      <<<<"p", "y", "t", "h", "o", "n">>, <<"2", ".">>>>,
      <<<<"r", "u", "b", "y">>, <<"1", ".">>>>,
      <<<<"r", "u", "b", "y">>, <<"2", ".">>>>,
      <<<<"p", "h", "p">>, <<"5", ".">>>>,
      <<<<"p", "h", "p">>, <<"7", ".">>>>,
      <<<<"m", "y", "s", "q", "l">>, <<"4", ".">>>>,
      <<<<"m", "y", "s", "q", "l">>, <<"5", ".">>>>,
      <<<<"p", "o", "s", "t", "g", "r", "e", "s", "q", "l">>, <<"8", ".">>>>,
      <<<<"p", "o", "s", "t", "g", "r", "e", "s", "q", "l">>, <<"9", ".">>>>,
      <<<<"m", "o", "n", "g", "o", "d", "b">>, <<"2", ".">>>>,
      <<<<"m", "o", "n", "g", "o", "d", "b">>, <<"3", ".">>>>,
      <<<<"r", "e", "d", "i", "s">>, <<"2", ".">>>>,
      <<<<"r", "e", "d", "i", "s">>, <<"3", ".">>>>,
      <<<<"d", "o", "c", "k", "e", "r">>, <<"1", ".">>>>,
      <<<<"k", "u", "b", "e", "r", "n", "e", "t", "e", "s">>, <<"1", ".">>>>,
      <<<<"a", "w", "s">>, <<"c", "l", "i">>, <<"1", ".">>>>,
      <<<<"t", "e", "r", "r", "a", "f", "o", "r", "m">>, <<"0", ".">>>>,
      <<<<"a", "n", "s", "i", "b", "l", "e">>, <<"1", ".">>>>,
      <<<<"c", "h", "e", "f">>, <<"1", "1", ".">>>>,
      <<<<"p", "u", "p", "p", "e", "t">>, <<"3", ".">>>>,
      <<<<"v", "a", "g", "r", "a", "n", "t">>, <<"1", ".">>>>,
      <<<<"v", "i", "r", "t", "u", "a", "l", "b", "o", "x">>, <<"4", ".">>>>,
      <<<<"v", "m", "w", "a", "r", "e">>, <<"5", ".">>>>,
      <<<<"h", "y", "p", "e", "r", "-", "v">>, <<"1", ".">>>>,
      <<<<"x", "e", "n">>, <<"4", ".">>>>,
      <<<<"k", "v", "m">>, <<"1", ".">>>>,
      <<<<"l", "x", "c">>, <<"1", ".">>>>,
      <<<<"l", "x", "d">>, <<"2", ".">>>>,
      <<<<"s", "y", "s", "t", "e", "m", "d">>, <<"2", "0", "0", ".">>>>,
      <<<<"u", "p", "s", "t", "a", "r", "t">>, <<"0", ".">>>>,
      <<<<"s", "y", "s", "v", "i", "n", "i", "t">>, <<"0", ".">>>>,
      <<<<"r", "u", "n", "i", "t">>, <<"0", ".">>>>,
      <<<<"s", "6">>, <<"0", ".">>>>,
      <<<<"d", "a", "e", "m", "o", "n", "t", "o", "o", "l", "s">>, <<"0", ".">>>>,
      <<<<"s", "u", "p", "e", "r", "v", "i", "s", "o", "r">>, <<"3", ".">>>>,
      <<<<"m", "o", "n", "i", "t">>, <<"5", ".">>>>,
      <<<<"g", "o", "d">>, <<"0", ".">>>>,
      <<<<"b", "l", "u", "e", "p", "i", "l", "l">>, <<"0", ".">>>>,
      <<<<"e", "y", "e">>, <<"0", ".">>>>,
      <<<<"f", "o", "r", "e", "m", "a", "n">>, <<"0", ".">>>>,
      <<<<"h", "o", "n", "c", "h", "o">>, <<"0", ".">>>>,
      <<<<"c", "i", "r", "c", "u", "s">>, <<"0", ".">>>>,
      <<<<"s", "u", "p", "e", "r", "v", "i", "s", "o", "r", "d">>, <<"3", ".">>>>,
      <<<<"r", "u", "n", "i", "t">>, <<"0", ".">>>>,
      <<<<"s", "6">>, <<"0", ".">>>>,
      <<<<"d", "a", "e", "m", "o", "n", "t", "o", "o", "l", "s">>, <<"0", ".">>>>,
      <<<<"s", "u", "p", "e", "r", "v", "i", "s", "o", "r">>, <<"3", ".">>>>,
      <<<<"m", "o", "n", "i", "t">>, <<"5", ".">>>>,
      <<<<"g", "o", "d">>, <<"0", ".">>>>,
      <<<<"b", "l", "u", "e", "p", "i", "l", "l">>, <<"0", ".">>>>,
      <<<<"e", "y", "e">>, <<"0", ".">>>>,
      <<<<"f", "o", "r", "e", "m", "a", "n">>, <<"0", ".">>>>,
      <<<<"h", "o", "n", "c", "h", "o">>, <<"0", ".">>>>,
      <<<<"c", "i", "r", "c", "u", "s">>, <<"0", ".">>>>
    >>

\* isOutdated: its local outdatedContentPatterns
outdatedContentPatterns ==
    <<
      <<<<"a", "n", "g", "u", "l", "a", "r", "j", "s">>, <<"1", ".">>>>,
      <<<<"r", "e", "a", "c", "t">>, <<"0", ".">>>>,
      <<<<"v", "u", "e">>, <<"1", ".">>>>,
      <<<<"e", "m", "b", "e", "r">>, <<"1", ".">>>>,
      <<<<"b", "a", "c", "k", "b", "o", "n", "e">>, <<"0", ".">>>>,
      <<<<"j", "q", "u", "e", "r", "y">>, <<"1", ".">>>>,
      <<<<"b", "o", "o", "t", "s", "t", "r", "a", "p">>, <<"2", ".">>>>,
      <<<<"b", "o", "o", "t", "s", "t", "r", "a", "p">>, <<"3", ".">>>>,
      <<<<"n", "o", "d", "e">>, <<"0", ".">>>>,
      <<<<"n", "o", "d", "e">>, <<"4", ".">>>>,
      <<<<"n", "o", "d", "e">>, <<"6", ".">>>>,
      <<<<"n", "o", "d", "e">>, <<"8", ".">>>>,
      <<<<"n", "o", "d", "e">>, <<"1", "0", ".">>>>,
      <<<<"p", "y", "t", "h", "o", "n">>, <<"2", ".">>>>,
      <<<<"r", "u", "b", "y">>, <<"1", ".">>>>,
      <<<<"r", "u", "b", "y">>, <<"2", ".">>>>,
      <<<<"p", "h", "p">>, <<"5", ".">>>>,
      <<<<"p", "h", "p">>, <<"7", ".">>>>,
      <<<<"m", "y", "s", "q", "l">>, <<"4", ".">>>>,
      <<<<"m", "y", "s", "q", "l">>, <<"5", ".">>>>,
      <<<<"p", "o", "s", "t", "g", "r", "e", "s", "q", "l">>, <<"8", ".">>>>,
      <<<<"p", "o", "s", "t", "g", "r", "e", "s", "q", "l">>, <<"9", ".">>>>,
      <<<<"m", "o", "n", "g", "o", "d", "b">>, <<"2", ".">>>>,
      <<<<"m", "o", "n", "g", "o", "d", "b">>, <<"3", ".">>>>,
      <<<<"r", "e", "d", "i", "s">>, <<"2", ".">>>>,
      <<<<"r", "e", "d", "i", "s">>, <<"3", ".">>>>,
      <<<<"d", "o", "c", "k", "e", "r">>, <<"1", ".">>>>,
      <<<<"k", "u", "b", "e", "r", "n", "e", "t", "e", "s">>, <<"1", ".">>>>,
      <<<<"a", "w", "s">>, <<"c", "l", "i">>, <<"1", ".">>>>,
      <<<<"t", "e", "r", "r", "a", "f", "o", "r", "m">>, <<"0", ".">>>>,
      <<<<"a", "n", "s", "i", "b", "l", "e">>, <<"1", ".">>>>,
      <<<<"c", "h", "e", "f">>, <<"1", "1", ".">>>>,
      <<<<"p", "u", "p", "p", "e", "t">>, <<"3", ".">>>>,
      <<<<"v", "a", "g", "r", "a", "n", "t">>, <<"1", ".">>>>,
      <<<<"v", "i", "r", "t", "u", "a", "l", "b", "o", "x">>, <<"4", ".">>>>,
      <<<<"v", "m", "w", "a", "r", "e">>, <<"5", ".">>>>,
      <<<<"h", "y", "p", "e", "r", "-", "v">>, <<"1", ".">>>>,
      <<<<"x", "e", "n">>, <<"4", ".">>>>,
      <<<<"k", "v", "m">>, <<"1", ".">>>>,
      <<<<"l", "x", "c">>, <<"1", ".">>>>,
      <<<<"l", "x", "d">>, <<"2", ".">>>>,
      <<<<"s", "y", "s", "t", "e", "m", "d">>, <<"2", "0", "0", ".">>>>,
      <<<<"u", "p", "s", "t", "a", "r", "t">>, <<"0", ".">>>>,
      <<<<"s", "y", "s", "v", "i", "n", "i", "t">>, <<"0", ".">>>>,
      <<<<"r", "u", "n", "i", "t">>, <<"0", ".">>>>,
      <<<<"s", "6">>, <<"0", ".">>>>,
      <<<<"d", "a", "e", "m", "o", "n", "t", "o", "o", "l", "s">>, <<"0", ".">>>>,
      <<<<"s", "u", "p", "e", "r", "v", "i", "s", "o", "r">>, <<"3", ".">>>>,
      <<<<"m", "o", "n", "i", "t">>, <<"5", ".">>>>,
      <<<<"g", "o", "d">>, <<"0", ".">>>>,
      <<<<"b", "l", "u", "e", "p", "i", "l", "l">>, <<"0", ".">>>>,
      <<<<"e", "y", "e">>, <<"0", ".">>>>,
      <<<<"f", "o", "r", "e", "m", "a", "n">>, <<"0", ".">>>>,
      <<<<"h", "o", "n", "c", "h", "o">>, <<"0", ".">>>>,
      <<<<"c", "i", "r", "c", "u", "s">>, <<"0", ".">>>>
    >>

\* extractTechFromFilename: its local techMap, as <<key, value>> pairs
techMap ==
    {
      <<<<"j", "s">>, <<"j", "a", "v", "a", "s", "c", "r", "i", "p", "t">>>>,
      <<<<"t", "s">>, <<"t", "y", "p", "e", "s", "c", "r", "i", "p", "t">>>>,
      <<<<"p", "y">>, <<"p", "y", "t", "h", "o", "n">>>>,
      <<<<"r", "b">>, <<"r", "u", "b", "y">>>>,
      <<<<"g", "o">>, <<"g", "o", "l", "a", "n", "g">>>>,
      <<<<"r", "s">>, <<"r", "u", "s", "t">>>>,
      <<<<"k", "t">>, <<"k", "o", "t", "l", "i", "n">>>>,
      <<<<"t", "y", "p", "e", "s", "c", "r", "i", "p", "t">>, <<"t", "y", "p", "e", "s", "c", "r", "i", "p", "t">>>>,
      <<<<"j", "a", "v", "a", "s", "c", "r", "i", "p", "t">>, <<"j", "a", "v", "a", "s", "c", "r", "i", "p", "t">>>>,
      <<<<"p", "y", "t", "h", "o", "n">>, <<"p", "y", "t", "h", "o", "n">>>>,
      <<<<"r", "u", "b", "y">>, <<"r", "u", "b", "y">>>>,
      <<<<"p", "h", "p">>, <<"p", "h", "p">>>>,
      <<<<"g", "o", "l", "a", "n", "g">>, <<"g", "o", "l", "a", "n", "g">>>>,
      <<<<"r", "u", "s", "t">>, <<"r", "u", "s", "t">>>>,
      <<<<"c", "p", "p">>, <<"c", "p", "p">>>>,
      <<<<"c">>, <<"c">>>>,
      <<<<"j", "a", "v", "a">>, <<"j", "a", "v", "a">>>>,
      <<<<"k", "o", "t", "l", "i", "n">>, <<"k", "o", "t", "l", "i", "n">>>>,
      <<<<"s", "w", "i", "f", "t">>, <<"s", "w", "i", "f", "t">>>>,
      <<<<"d", "a", "r", "t">>, <<"d", "a", "r", "t">>>>,
      <<<<"s", "c", "a", "l", "a">>, <<"s", "c", "a", "l", "a">>>>,
      <<<<"c", "l", "o", "j", "u", "r", "e">>, <<"c", "l", "o", "j", "u", "r", "e">>>>,
      <<<<"h", "a", "s", "k", "e", "l", "l">>, <<"h", "a", "s", "k", "e", "l", "l">>>>,
      <<<<"o", "c", "a", "m", "l">>, <<"o", "c", "a", "m", "l">>>>,
      <<<<"f", "s", "h", "a", "r", "p">>, <<"f", "s", "h", "a", "r", "p">>>>,
      <<<<"e", "r", "l", "a", "n", "g">>, <<"e", "r", "l", "a", "n", "g">>>>,
      <<<<"e", "l", "i", "x", "i", "r">>, <<"e", "l", "i", "x", "i", "r">>>>,
      <<<<"e", "l", "m">>, <<"e", "l", "m">>>>,
      <<<<"p", "u", "r", "e", "s", "c", "r", "i", "p", "t">>, <<"p", "u", "r", "e", "s", "c", "r", "i", "p", "t">>>>,
      <<<<"r", "e", "a", "s", "o", "n">>, <<"r", "e", "a", "s", "o", "n">>>>,
      <<<<"r", "e", "s", "c", "r", "i", "p", "t">>, <<"r", "e", "s", "c", "r", "i", "p", "t">>>>,
      <<<<"c", "o", "f", "f", "e", "e", "s", "c", "r", "i", "p", "t">>, <<"c", "o", "f", "f", "e", "e", "s", "c", "r", "i", "p", "t">>>>
    }

\* TECH_TO_ICON_MAP, as <<tech, icon>> pairs
TECH_TO_ICON_MAP ==
    {
      <<<<"a", "n", "g", "u", "l", "a", "r">>, <<"a", "n", "g", "u", "l", "a", "r", ".", "s", "v", "g">>>>,
      <<<<"a", "w", "k">>, <<"a", "w", "k", ".", "s", "v", "g">>>>,
      <<<<"a", "w", "s">>, <<"a", "w", "s", ".", "s", "v", "g">>>>,
      <<<<"b", "a", "s", "h">>, <<"b", "a", "s", "h", ".", "s", "v", "g">>>>,
      <<<<"b", "r", "e", "w">>, <<"b", "r", "e", "w", ".", "s", "v", "g">>>>,
      <<<<"c", "s", "s">>, <<"c", "s", "s", ".", "s", "v", "g">>>>,
      <<<<"c", "u", "r", "l">>, <<"c", "u", "r", "l", ".", "s", "v", "g">>>>,
      <<<<"d", "o", "c", "k", "e", "r">>, <<"d", "o", "c", "k", "e", "r", ".", "s", "v", "g">>>>,
      <<<<"e", "m", "a", "c", "s">>, <<"e", "m", "a", "c", "s", ".", "s", "v", "g">>>>,
      <<<<"f", "i", "s", "h">>, <<"f", "i", "s", "h", ".", "s", "v", "g">>>>,
      <<<<"g", "i", "t">>, <<"g", "i", "t", ".", "s", "v", "g">>>>,
      <<<<"g", "i", "t", "h", "u", "b">>, <<"g", "i", "t", "h", "u", "b", ".", "s", "v", "g">>>>,
      <<<<"g", "o">>, <<"g", "o", ".", "s", "v", "g">>>>,
      <<<<"g", "o", "l", "a", "n", "g">>, <<"g", "o", ".", "s", "v", "g">>>>,
      <<<<"g", "r", "a", "p", "h", "q", "l">>, <<"g", "r", "a", "p", "h", "q", "l", ".", "s", "v", "g">>>>,
      <<<<"g", "r", "e", "p">>, <<"g", "r", "e", "p", ".", "s", "v", "g">>>>,
      <<<<"h", "t", "m", "l">>, <<"h", "t", "m", "l", ".", "s", "v", "g">>>>,
      <<<<"j", "a", "v", "a">>, <<"j", "a", "v", "a", ".", "s", "v", "g">>>>,
      <<<<"j", "a", "v", "a", "s", "c", "r", "i", "p", "t">>, <<"j", "a", "v", "a", "s", "c", "r", "i", "p", "t", ".", "s", "v", "g">>>>,
      <<<<"j", "s">>, <<"j", "a", "v", "a", "s", "c", "r", "i", "p", "t", ".", "s", "v", "g">>>>,
      <<<<"j", "q">>, <<"j", "q", ".", "s", "v", "g">>>>,
      <<<<"k", "o", "t", "l", "i", "n">>, <<"k", "o", "t", "l", "i", "n", ".", "s", "v", "g">>>>,
      <<<<"k", "u", "b", "e", "r", "n", "e", "t", "e", "s">>, <<"k", "u", "b", "e", "r", "n", "e", "t", "e", "s", ".", "s", "v", "g">>>>,
      <<<<"k", "8", "s">>, <<"k", "u", "b", "e", "r", "n", "e", "t", "e", "s", ".", "s", "v", "g">>>>,
      <<<<"l", "i", "n", "u", "x">>, <<"l", "i", "n", "u", "x", ".", "s", "v", "g">>>>,
      <<<<"m", "a", "c">>, <<"m", "a", "c", ".", "s", "v", "g">>>>,
      <<<<"m", "a", "c", "o", "s">>, <<"m", "a", "c", ".", "s", "v", "g">>>>,
      <<<<"m", "a", "k", "e">>, <<"m", "a", "k", "e", ".", "s", "v", "g">>>>,
      <<<<"m", "o", "n", "g", "o", "d", "b">>, <<"m", "o", "n", "g", "o", "d", "b", ".", "s", "v", "g">>>>,
      <<<<"m", "y", "s", "q", "l">>, <<"m", "y", "s", "q", "l", ".", "s", "v", "g">>>>,
      <<<<"n", "e", "x", "t", "j", "s">>, <<"n", "e", "x", "t", "j", "s", ".", "s", "v", "g">>>>,
      <<<<"n", "e", "x", "t">>, <<"n", "e", "x", "t", "j", "s", ".", "s", "v", "g">>>>,
      <<<<"n", "g", "i", "n", "x">>, <<"n", "g", "i", "n", "x", ".", "s", "v", "g">>>>,
      <<<<"n", "o", "d", "e">>, <<"n", "o", "d", "e", ".", "s", "v", "g">>>>,
      <<<<"n", "o", "d", "e", "j", "s">>, <<"n", "o", "d", "e", ".", "s", "v", "g">>>>,
      <<<<"n", "p", "m">>, <<"n", "p", "m", ".", "s", "v", "g">>>>,
      <<<<"n", "v", "m">>, <<"n", "v", "m", ".", "s", "v", "g">>>>,
      <<<<"p", "h", "p">>, <<"p", "h", "p", ".", "s", "v", "g">>>>,
      <<<<"p", "n", "p", "m">>, <<"p", "n", "p", "m", ".", "s", "v", "g">>>>,
      <<<<"p", "o", "s", "t", "g", "r", "e", "s", "q", "l">>, <<"p", "o", "s", "t", "g", "r", "e", "s", "q", "l", ".", "s", "v", "g">>>>,
      <<<<"p", "o", "s", "t", "g", "r", "e", "s">>, <<"p", "o", "s", "t", "g", "r", "e", "s", "q", "l", ".", "s", "v", "g">>>>,
      <<<<"p", "y", "t", "h", "o", "n">>, <<"p", "y", "t", "h", "o", "n", ".", "s", "v", "g">>>>,
      <<<<"p", "y">>, <<"p", "y", "t", "h", "o", "n", ".", "s", "v", "g">>>>,
      <<<<"r", "e", "a", "c", "t">>, <<"r", "e", "a", "c", "t", ".", "s", "v", "g">>>>,
      <<<<"r", "e", "d", "i", "s">>, <<"r", "e", "d", "i", "s", ".", "s", "v", "g">>>>,
      <<<<"r", "u", "b", "y">>, <<"r", "u", "b", "y", ".", "s", "v", "g">>>>,
      <<<<"r", "b">>, <<"r", "u", "b", "y", ".", "s", "v", "g">>>>,
      <<<<"r", "u", "s", "t">>, <<"r", "u", "s", "t", ".", "s", "v", "g">>>>,
      <<<<"r", "s">>, <<"r", "u", "s", "t", ".", "s", "v", "g">>>>,
      <<<<"s", "e", "d">>, <<"s", "e", "d", ".", "s", "v", "g">>>>,
      <<<<"s", "q", "l">>, <<"s", "q", "l", ".", "s", "v", "g">>>>,
      <<<<"s", "q", "l", "i", "t", "e">>, <<"s", "q", "l", "i", "t", "e", ".", "s", "v", "g">>>>,
      <<<<"s", "s", "h">>, <<"s", "s", "h", ".", "s", "v", "g">>>>,
      <<<<"s", "v", "e", "l", "t", "e">>, <<"s", "v", "e", "l", "t", "e", ".", "s", "v", "g">>>>,
      <<<<"s", "w", "i", "f", "t">>, <<"s", "w", "i", "f", "t", ".", "s", "v", "g">>>>,
      <<<<"t", "a", "i", "l", "w", "i", "n", "d">>, <<"t", "a", "i", "l", "w", "i", "n", "d", ".", "s", "v", "g">>>>,
      <<<<"t", "e", "r", "m", "i", "n", "a", "l">>, <<"t", "e", "r", "m", "i", "n", "a", "l", ".", "s", "v", "g">>>>,
      <<<<"t", "e", "r", "r", "a", "f", "o", "r", "m">>, <<"t", "e", "r", "r", "a", "f", "o", "r", "m", ".", "s", "v", "g">>>>,
      <<<<"t", "m", "u", "x">>, <<"t", "m", "u", "x", ".", "s", "v", "g">>>>,
      <<<<"v", "i", "m">>, <<"v", "i", "m", ".", "s", "v", "g">>>>,
      <<<<"v", "u", "e">>, <<"v", "u", "e", ".", "s", "v", "g">>>>,
      <<<<"y", "a", "r", "n">>, <<"y", "a", "r", "n", ".", "s", "v", "g">>>>,
      <<<<"z", "s", "h">>, <<"z", "s", "h", ".", "s", "v", "g">>>>
    }

\* ICON_PATTERNS, in table order: each pattern is the sequence of its
\* alternatives, a literal text that is anchored at the start (^) or not
ICON_PATTERNS ==
    <<
      [pattern |-> <<[anchored |-> TRUE, text |-> <<"g", "h", "-">>], [anchored |-> FALSE, text |-> <<"g", "i", "t", "h", "u", "b">>], [anchored |-> FALSE, text |-> <<"g", "i", "t", "-">>]>>, icon |-> <<"g", "i", "t", "h", "u", "b", ".", "s", "v", "g">>],
      [pattern |-> <<[anchored |-> TRUE, text |-> <<"c", "s", "s", "-">>], [anchored |-> FALSE, text |-> <<"c", "s", "s">>]>>, icon |-> <<"c", "s", "s", ".", "s", "v", "g">>],
      [pattern |-> <<[anchored |-> TRUE, text |-> <<"h", "t", "m", "l", "-">>], [anchored |-> FALSE, text |-> <<"h", "t", "m", "l">>]>>, icon |-> <<"h", "t", "m", "l", ".", "s", "v", "g">>],
      [pattern |-> <<[anchored |-> TRUE, text |-> <<"j", "s", "-">>], [anchored |-> FALSE, text |-> <<"j", "a", "v", "a", "s", "c", "r", "i", "p", "t">>], [anchored |-> FALSE, text |-> <<"j", "q", "u", "e", "r", "y">>]>>, icon |-> <<"j", "a", "v", "a", "s", "c", "r", "i", "p", "t", ".", "s", "v", "g">>],
      [pattern |-> <<[anchored |-> TRUE, text |-> <<"n", "o", "d", "e", "j", "s", "-">>], [anchored |-> FALSE, text |-> <<"n", "o", "d", "e">>]>>, icon |-> <<"n", "o", "d", "e", ".", "s", "v", "g">>],
      [pattern |-> <<[anchored |-> TRUE, text |-> <<"g", "i", "t", "-">>], [anchored |-> FALSE, text |-> <<"g", "i", "t">>]>>, icon |-> <<"g", "i", "t", ".", "s", "v", "g">>],
      [pattern |-> <<[anchored |-> TRUE, text |-> <<"d", "o", "c", "k", "e", "r", "-">>], [anchored |-> FALSE, text |-> <<"d", "o", "c", "k", "e", "r">>]>>, icon |-> <<"d", "o", "c", "k", "e", "r", ".", "s", "v", "g">>],
      [pattern |-> <<[anchored |-> TRUE, text |-> <<"r", "a", "i", "l", "s", "-">>], [anchored |-> FALSE, text |-> <<"r", "a", "i", "l", "s">>]>>, icon |-> <<"r", "u", "b", "y", ".", "s", "v", "g">>],
      [pattern |-> <<[anchored |-> TRUE, text |-> <<"p", "h", "o", "e", "n", "i", "x", "-">>], [anchored |-> FALSE, text |-> <<"p", "h", "o", "e", "n", "i", "x">>]>>, icon |-> <<"e", "l", "i", "x", "i", "r", ".", "s", "v", "g">>],
      [pattern |-> <<[anchored |-> TRUE, text |-> <<"r", "e", "a", "c", "t", "-">>], [anchored |-> FALSE, text |-> <<"r", "e", "a", "c", "t">>]>>, icon |-> <<"r", "e", "a", "c", "t", ".", "s", "v", "g">>],
      [pattern |-> <<[anchored |-> TRUE, text |-> <<"v", "u", "e", "-">>], [anchored |-> FALSE, text |-> <<"v", "u", "e">>]>>, icon |-> <<"v", "u", "e", ".", "s", "v", "g">>],
      [pattern |-> <<[anchored |-> TRUE, text |-> <<"e", "x", "p", "r", "e", "s", "s">>], [anchored |-> FALSE, text |-> <<"k", "o", "a">>], [anchored |-> FALSE, text |-> <<"f", "a", "s", "t", "i", "f", "y">>]>>, icon |-> <<"n", "o", "d", "e", ".", "s", "v", "g">>],
      [pattern |-> <<[anchored |-> TRUE, text |-> <<"m", "o", "c", "h", "a">>], [anchored |-> FALSE, text |-> <<"j", "a", "s", "m", "i", "n", "e">>], [anchored |-> FALSE, text |-> <<"t", "a", "p", "e">>], [anchored |-> FALSE, text |-> <<"q", "u", "n", "i", "t">>], [anchored |-> FALSE, text |-> <<"j", "e", "s", "t">>]>>, icon |-> <<"j", "a", "v", "a", "s", "c", "r", "i", "p", "t", ".", "s", "v", "g">>],
      [pattern |-> <<[anchored |-> TRUE, text |-> <<"w", "e", "b", "p", "a", "c", "k">>], [anchored |-> FALSE, text |-> <<"r", "o", "l", "l", "u", "p">>], [anchored |-> FALSE, text |-> <<"b", "r", "o", "w", "s", "e", "r", "i", "f", "y">>], [anchored |-> FALSE, text |-> <<"g", "u", "l", "p">>]>>, icon |-> <<"j", "a", "v", "a", "s", "c", "r", "i", "p", "t", ".", "s", "v", "g">>],
      [pattern |-> <<[anchored |-> TRUE, text |-> <<"b", "o", "o", "t", "s", "t", "r", "a", "p">>], [anchored |-> FALSE, text |-> <<"b", "u", "l", "m", "a">>], [anchored |-> FALSE, text |-> <<"t", "a", "i", "l", "w", "i", "n", "d">>]>>, icon |-> <<"c", "s", "s", ".", "s", "v", "g">>],
      [pattern |-> <<[anchored |-> TRUE, text |-> <<"m", "y", "s", "q", "l">>], [anchored |-> FALSE, text |-> <<"p", "o", "s", "t", "g", "r", "e", "s", "q", "l">>], [anchored |-> FALSE, text |-> <<"m", "o", "n", "g", "o", "d", "b">>], [anchored |-> FALSE, text |-> <<"r", "e", "d", "i", "s">>], [anchored |-> FALSE, text |-> <<"s", "q", "l", "i", "t", "e">>]>>, icon |-> <<"d", "a", "t", "a", "b", "a", "s", "e", ".", "s", "v", "g">>],
      [pattern |-> <<[anchored |-> TRUE, text |-> <<"b", "a", "s", "h">>], [anchored |-> FALSE, text |-> <<"z", "s", "h">>], [anchored |-> FALSE, text |-> <<"f", "i", "s", "h">>], [anchored |-> FALSE, text |-> <<"s", "h", "-">>], [anchored |-> FALSE, text |-> <<"t", "e", "r", "m", "i", "n", "a", "l">>]>>, icon |-> <<"t", "e", "r", "m", "i", "n", "a", "l", ".", "s", "v", "g">>],
      [pattern |-> <<[anchored |-> TRUE, text |-> <<"v", "i", "m", "-">>], [anchored |-> FALSE, text |-> <<"v", "i", "m">>]>>, icon |-> <<"v", "i", "m", ".", "s", "v", "g">>],
      [pattern |-> <<[anchored |-> TRUE, text |-> <<"e", "m", "a", "c", "s">>], [anchored |-> FALSE, text |-> <<"s", "p", "a", "c", "e", "m", "a", "c", "s">>]>>, icon |-> <<"e", "m", "a", "c", "s", ".", "s", "v", "g">>],
      [pattern |-> <<[anchored |-> TRUE, text |-> <<"p", "y", "t", "h", "o", "n">>], [anchored |-> FALSE, text |-> <<"p", "y", "-">>], [anchored |-> FALSE, text |-> <<"d", "j", "a", "n", "g", "o">>], [anchored |-> FALSE, text |-> <<"f", "l", "a", "s", "k">>]>>, icon |-> <<"p", "y", "t", "h", "o", "n", ".", "s", "v", "g">>],
      [pattern |-> <<[anchored |-> TRUE, text |-> <<"p", "h", "p">>], [anchored |-> FALSE, text |-> <<"l", "a", "r", "a", "v", "e", "l">>], [anchored |-> FALSE, text |-> <<"s", "y", "m", "f", "o", "n", "y">>]>>, icon |-> <<"p", "h", "p", ".", "s", "v", "g">>],
      [pattern |-> <<[anchored |-> TRUE, text |-> <<"r", "u", "b", "y">>], [anchored |-> FALSE, text |-> <<"r", "b", "-">>], [anchored |-> FALSE, text |-> <<"g", "e", "m">>]>>, icon |-> <<"r", "u", "b", "y", ".", "s", "v", "g">>],
      [pattern |-> <<[anchored |-> TRUE, text |-> <<"g", "o">>], [anchored |-> FALSE, text |-> <<"g", "o", "l", "a", "n", "g">>]>>, icon |-> <<"g", "o", ".", "s", "v", "g">>],
      [pattern |-> <<[anchored |-> TRUE, text |-> <<"r", "u", "s", "t">>], [anchored |-> FALSE, text |-> <<"r", "s", "-">>]>>, icon |-> <<"r", "u", "s", "t", ".", "s", "v", "g">>],
      [pattern |-> <<[anchored |-> TRUE, text |-> <<"j", "a", "v", "a">>], [anchored |-> FALSE, text |-> <<"k", "o", "t", "l", "i", "n">>], [anchored |-> FALSE, text |-> <<"s", "p", "r", "i", "n", "g">>]>>, icon |-> <<"j", "a", "v", "a", ".", "s", "v", "g">>],
      [pattern |-> <<[anchored |-> TRUE, text |-> <<"s", "w", "i", "f", "t">>], [anchored |-> FALSE, text |-> <<"i", "o", "s">>]>>, icon |-> <<"s", "w", "i", "f", "t", ".", "s", "v", "g">>],
      [pattern |-> <<[anchored |-> TRUE, text |-> <<"a", "w", "s">>], [anchored |-> FALSE, text |-> <<"a", "w", "s", "c", "l", "i">>]>>, icon |-> <<"a", "w", "s", ".", "s", "v", "g">>],
      [pattern |-> <<[anchored |-> TRUE, text |-> <<"k", "8", "s">>], [anchored |-> FALSE, text |-> <<"k", "u", "b", "e", "r", "n", "e", "t", "e", "s">>]>>, icon |-> <<"k", "u", "b", "e", "r", "n", "e", "t", "e", "s", ".", "s", "v", "g">>],
      [pattern |-> <<[anchored |-> TRUE, text |-> <<"t", "e", "r", "r", "a", "f", "o", "r", "m">>], [anchored |-> FALSE, text |-> <<"t", "f", "-">>]>>, icon |-> <<"t", "e", "r", "r", "a", "f", "o", "r", "m", ".", "s", "v", "g">>],
      [pattern |-> <<[anchored |-> TRUE, text |-> <<"a", "n", "s", "i", "b", "l", "e">>]>>, icon |-> <<"a", "n", "s", "i", "b", "l", "e", ".", "s", "v", "g">>],
      [pattern |-> <<[anchored |-> TRUE, text |-> <<"c", "h", "e", "f">>]>>, icon |-> <<"c", "h", "e", "f", ".", "s", "v", "g">>],
      [pattern |-> <<[anchored |-> TRUE, text |-> <<"d", "o", "c", "k", "e", "r">>]>>, icon |-> <<"d", "o", "c", "k", "e", "r", ".", "s", "v", "g">>],
      [pattern |-> <<[anchored |-> TRUE, text |-> <<"n", "g", "i", "n", "x">>]>>, icon |-> <<"n", "g", "i", "n", "x", ".", "s", "v", "g">>],
      [pattern |-> <<[anchored |-> TRUE, text |-> <<"m", "y", "s", "q", "l">>]>>, icon |-> <<"m", "y", "s", "q", "l", ".", "s", "v", "g">>],
      [pattern |-> <<[anchored |-> TRUE, text |-> <<"p", "o", "s", "t", "g", "r", "e", "s", "q", "l">>], [anchored |-> FALSE, text |-> <<"p", "o", "s", "t", "g", "r", "e", "s">>]>>, icon |-> <<"p", "o", "s", "t", "g", "r", "e", "s", "q", "l", ".", "s", "v", "g">>],
      [pattern |-> <<[anchored |-> TRUE, text |-> <<"m", "o", "n", "g", "o", "d", "b">>], [anchored |-> FALSE, text |-> <<"m", "o", "n", "g", "o">>]>>, icon |-> <<"m", "o", "n", "g", "o", "d", "b", ".", "s", "v", "g">>],
      [pattern |-> <<[anchored |-> TRUE, text |-> <<"r", "e", "d", "i", "s">>]>>, icon |-> <<"r", "e", "d", "i", "s", ".", "s", "v", "g">>],
      [pattern |-> <<[anchored |-> TRUE, text |-> <<"s", "q", "l">>]>>, icon |-> <<"s", "q", "l", ".", "s", "v", "g">>],
      [pattern |-> <<[anchored |-> TRUE, text |-> <<"s", "s", "h">>], [anchored |-> FALSE, text |-> <<"s", "c", "p">>]>>, icon |-> <<"s", "s", "h", ".", "s", "v", "g">>],
      [pattern |-> <<[anchored |-> TRUE, text |-> <<"c", "u", "r", "l">>], [anchored |-> FALSE, text |-> <<"h", "t", "t", "p", "i", "e">>]>>, icon |-> <<"c", "u", "r", "l", ".", "s", "v", "g">>],
      [pattern |-> <<[anchored |-> TRUE, text |-> <<"g", "r", "e", "p">>], [anchored |-> FALSE, text |-> <<"s", "e", "d">>], [anchored |-> FALSE, text |-> <<"a", "w", "k">>]>>, icon |-> <<"g", "r", "e", "p", ".", "s", "v", "g">>],
      [pattern |-> <<[anchored |-> TRUE, text |-> <<"m", "a", "k", "e">>], [anchored |-> FALSE, text |-> <<"m", "a", "k", "e", "f", "i", "l", "e">>]>>, icon |-> <<"m", "a", "k", "e", ".", "s", "v", "g">>],
      [pattern |-> <<[anchored |-> TRUE, text |-> <<"n", "p", "m">>], [anchored |-> FALSE, text |-> <<"y", "a", "r", "n">>], [anchored |-> FALSE, text |-> <<"p", "n", "p", "m">>]>>, icon |-> <<"n", "p", "m", ".", "s", "v", "g">>],
      [pattern |-> <<[anchored |-> TRUE, text |-> <<"l", "i", "n", "u", "x">>], [anchored |-> FALSE, text |-> <<"u", "b", "u", "n", "t", "u">>], [anchored |-> FALSE, text |-> <<"d", "e", "b", "i", "a", "n">>]>>, icon |-> <<"l", "i", "n", "u", "x", ".", "s", "v", "g">>],
      [pattern |-> <<[anchored |-> TRUE, text |-> <<"m", "a", "c">>], [anchored |-> FALSE, text |-> <<"m", "a", "c", "o", "s">>], [anchored |-> FALSE, text |-> <<"o", "s", "x">>]>>, icon |-> <<"m", "a", "c", ".", "s", "v", "g">>],
      [pattern |-> <<[anchored |-> TRUE, text |-> <<"t", "m", "u", "x">>], [anchored |-> FALSE, text |-> <<"s", "c", "r", "e", "e", "n">>]>>, icon |-> <<"t", "m", "u", "x", ".", "s", "v", "g">>]
    >>

(***************************************************************************)
(* Cheatsheet files.  A file is its front-matter, a sequence of key/value  *)
(* pairs, and the text after it.                                           *)
(***************************************************************************)
\* The words of the scripts, as texts
Str ==
    [title |-> <<"t", "i", "t", "l", "e">>,
     tech |-> <<"t", "e", "c", "h">>,
     status |-> <<"s", "t", "a", "t", "u", "s">>,
     lastReviewed |-> <<"l", "a", "s", "t", "R", "e", "v", "i", "e", "w", "e", "d">>,
     version |-> <<"v", "e", "r", "s", "i", "o", "n">>,
     active |-> <<"a", "c", "t", "i", "v", "e">>,
     archived |-> <<"a", "r", "c", "h", "i", "v", "e", "d">>,
     tags |-> <<"t", "a", "g", "s">>]

IsDigit(c) == c \in Range(Digits)

\* A value the YAML writer puts in quotes: one that would otherwise be read
\* back as a number or a date.
Quoted(v) ==
    /\ v # <<>>
    /\ IsDigit(v[1])
    /\ \A i \in 1 .. Len(v) : IsDigit(v[i]) \/ v[i] \in {".", "-"}
    /\ \/ Cardinality({ i \in 1 .. Len(v) : ~IsDigit(v[i]) }) <= 1 /\ "-" \notin Range(v)
       \/ /\ Len(v) = 10
          /\ { i \in 1 .. Len(v) : v[i] = "-" } = {5, 8}
          /\ "." \notin Range(v)

\* One line of front-matter
FrontMatterLine(pair) ==
    Str[pair.k] \o <<":", " ">>
      \o (IF Quoted(pair.v) THEN <<"'">> \o pair.v \o <<"'">> ELSE pair.v) \o <<"\n">>

Fence == <<"-", "-", "-", "\n">>

\* The text of a file: what fs.readFileSync(filePath, 'utf8') returns
Text(file) ==
    IF file.fm = <<>> THEN file.body
    ELSE Fence \o Concat([i \in 1 .. Len(file.fm) |-> FrontMatterLine(file.fm[i])])
           \o Fence \o file.body

\* matter(content).data[key], or undefined
data(file, key) ==
    IF \E i \in 1 .. Len(file.fm) : file.fm[i].k = key
    THEN file.fm[CHOOSE i \in 1 .. Len(file.fm) : file.fm[i].k = key].v
    ELSE Undefined

\* { ...data, [key]: v }: an existing key keeps its place, a new one is added last
assign(fm, key, v) ==
    IF \E i \in 1 .. Len(fm) : fm[i].k = key
    THEN [i \in 1 .. Len(fm) |-> IF fm[i].k = key THEN [k |-> key, v |-> v] ELSE fm[i]]
    ELSE Append(fm, [k |-> key, v |-> v])

\* matter.stringify(content, data): the front-matter, then the content, which
\* is given a final line break if it has none
stringify(body, fm) ==
    [fm |-> fm,
     body |-> IF body # <<>> /\ body[Len(body)] = "\n" THEN body ELSE body \o <<"\n">>]

(***************************************************************************)
(* audit-cheatsheets.ts: the pure functions.                               *)
(***************************************************************************)
\* Mutant of isOutdated: the list of outdated technologies is not consulted.
isOutdated_patternsOnly(filename, content) ==
    LET text == Text(content)
    IN \E p \in 1 .. Len(OUTDATED_PATTERNS) :
          test(OUTDATED_PATTERNS[p], filename) \/ test(OUTDATED_PATTERNS[p], text)

\* isOutdated(filename, content), content being the file read
isOutdated(filename, content) ==
    LET baseName == basename(filename)
        text == Text(content)
    IN IF baseName \in OUTDATED_TECHS THEN TRUE
       ELSE IF \E p \in 1 .. Len(OUTDATED_PATTERNS) :
                  test(OUTDATED_PATTERNS[p], filename) \/ test(OUTDATED_PATTERNS[p], text)
       THEN TRUE
       ELSE IF \E p \in 1 .. Len(outdatedContentPatterns) :
                  test(outdatedContentPatterns[p], text)
       THEN TRUE
       ELSE FALSE

\* extractTechFromFilename(filename)
extractTechFromFilename(filename) ==
    LET baseName == basename(filename)
    IN IF "@" \in Range(baseName)
       THEN SubSeq(baseName, 1, indexOf(baseName, "@") - 1)
       ELSE IF \E e \in techMap : e[1] = baseName /\ e[2] # <<>>
       THEN (CHOOSE e \in techMap : e[1] = baseName)[2]
       ELSE baseName

\* The end of the line that position p of s is in: the last position before
\* the next line break
LineEnd(s, p) ==
    IF \E n \in p .. Len(s) : s[n] = "\n"
    THEN (CHOOSE n \in p .. Len(s) : s[n] = "\n" /\ \A m \in p .. n - 1 : s[m] # "\n") - 1
    ELSE Len(s)

\* /^#\s+(.+)$/m matches at position p with \s+ taking w characters
HeadingMatch(s, p, w) ==
    /\ p = 1 \/ s[p - 1] = "\n"
    /\ s[p] = "#"
    /\ w >= 1
    /\ p + w <= Len(s)
    /\ \A n \in p + 1 .. p + w : IsWhitespace(s[n])
    /\ p + w + 1 <= Len(s)
    /\ s[p + w + 1] # "\n"

\* content.match(/^#\s+(.+)$/m): the capture of the first match, \s+ greedy,
\* or undefined
firstHeading(s) ==
    LET starts == { p \in 1 .. Len(s) : \E w \in 1 .. Len(s) : HeadingMatch(s, p, w) }
    IN IF starts = {} THEN Undefined
       ELSE LET p == CHOOSE q \in starts : \A r \in starts : q <= r
                w == CHOOSE v \in 1 .. Len(s) :
                        /\ HeadingMatch(s, p, v)
                        /\ \A u \in 1 .. Len(s) : HeadingMatch(s, p, u) => u <= v
            IN SubSeq(s, p + w + 1, LineEnd(s, p + w + 1))

\* baseName.split('-'): the words between the dashes
RECURSIVE split(_)
split(s) ==
    IF "-" \notin Range(s) THEN <<s>>
    ELSE <<SubSeq(s, 1, indexOf(s, "-") - 1)>> \o split(SubSeq(s, indexOf(s, "-") + 1, Len(s)))

\* word.charAt(0).toUpperCase() + word.slice(1)
capitalize(word) ==
    IF word = <<>> THEN <<>> ELSE <<toUpperCase(word[1])>> \o Tail(word)

\* words.join(' ')
RECURSIVE join(_)
join(words) ==
    IF Len(words) = 1 THEN words[1] ELSE words[1] \o <<" ">> \o join(Tail(words))

\* Mutant of generateTitle: the first heading is preferred to the front-matter.
generateTitle_headingFirst(filename, content) ==
    LET headingMatch == firstHeading(Text(content))
        words == split(basename(filename))
    IN IF headingMatch # Undefined THEN trim(headingMatch)
       ELSE IF ~Falsy(data(content, "title")) THEN data(content, "title")
       ELSE join([i \in 1 .. Len(words) |-> capitalize(words[i])])

\* generateTitle(filename, content)
generateTitle(filename, content) ==
    LET headingMatch == firstHeading(Text(content))
        words == split(basename(filename))
    IN IF ~Falsy(data(content, "title")) THEN data(content, "title")
       ELSE IF headingMatch # Undefined THEN trim(headingMatch)
       ELSE join([i \in 1 .. Len(words) |-> capitalize(words[i])])

IsVersionChar(c) == IsDigit(c) \/ c = "."

\* The longest run of [0-9.] characters of s that starts at position p
VersionRun(s, p) ==
    LET q == CHOOSE n \in p .. Len(s) :
                /\ \A m \in p .. n : IsVersionChar(s[m])
                /\ n = Len(s) \/ ~IsVersionChar(s[n + 1])
    IN SubSeq(s, p, q)

\* filename.match(/@([0-9.]+)/): where the capture of the first match starts, or 0
atVersionStart(s) ==
    LET starts == { p \in 2 .. Len(s) : s[p - 1] = "@" /\ IsVersionChar(s[p]) }
    IN IF starts = {} THEN 0 ELSE CHOOSE p \in starts : \A q \in starts : p <= q

\* content.match(/version[:\s]+([0-9.]+)/i): where the capture of the first
\* match starts, or 0
contentVersionStart(s) ==
    LET starts ==
          { p \in 1 .. Len(s) :
              /\ IsVersionChar(s[p])
              /\ \E v \in 1 .. p - 1 :
                    /\ LiteralAtIgnoreCase(s, Str.version, v)
                    /\ v + Len(Str.version) < p
                    /\ \A n \in v + Len(Str.version) .. p - 1 :
                          s[n] = ":" \/ IsWhitespace(s[n]) }
    IN IF starts = {} THEN 0 ELSE CHOOSE p \in starts : \A q \in starts : p <= q

\* extractVersion(filename, content)
extractVersion(filename, content) ==
    LET text == Text(content)
    IN IF atVersionStart(filename) # 0 THEN VersionRun(filename, atVersionStart(filename))
       ELSE IF contentVersionStart(text) # 0 THEN VersionRun(text, contentVersionStart(text))
       ELSE Undefined


(***************************************************************************)
(* The scripts: what they run on.                                          *)
(***************************************************************************)
MaxRuns == 2
MaxFiles == 2
MaxSheets == 2

Null == <<"null">>

\* The days new Date() can fall on while the scripts run
Dates == <<<<"2", "0", "2", "6", "-", "1", "1", "-", "0", "3">>, <<"2", "0", "2", "6", "-", "1", "1", "-", "0", "4">>>>

Absent == [exists |-> FALSE, data |-> <<>>]

NoResult == [kept |-> <<>>, updated |-> <<>>, archived |-> <<>>]

DotSvg == <<".", "s", "v", "g">>

\* A front-matter entry
Entry(k, v) == [k |-> k, v |-> v]

\* A cheatsheet whose front-matter is complete
Reviewed ==
    [fm |-> <<Entry("title", <<"G", "i", "t">>), Entry("tech", <<"g", "i", "t">>), Entry("status", Str.active),
              Entry("lastReviewed", <<"2", "0", "2", "6", "-", "0", "1", "-", "0", "1">>)>>,
     body |-> <<"#", " ", "G", "i", "t", "\n">>]

\* A cheatsheet without front-matter, with a heading
Headed == [fm |-> <<>>, body |-> <<"#", " ", " ", "G", "i", "t", " ", "l", "o", "g", " ", "\n", "t", "e", "x", "t", "\n">>]

\* A cheatsheet about an outdated version
AboutNode0 == [fm |-> <<>>, body |-> <<"N", "o", "d", "e", " ", "0", ".", "1", "\n">>]

\* A cheatsheet without front-matter or heading, its last line unfinished
Bare == [fm |-> <<>>, body |-> <<"n", "o", "d", "e", "\n", "0", ".", "1">>]

\* A cheatsheet with a title only, and a version in its text
Versioned == [fm |-> <<Entry("title", <<"G", "i", "t">>)>>, body |-> <<"V", "e", "r", "s", "i", "o", "n", ":", " ", "1", ".", "2", "\n">>]

\* A cheatsheet with a front-matter field of its author's, that mentions a
\* version before its heading, which mentions another
Prefaced == [fm |-> <<Entry("tags", <<"v", "c", "s">>)>>, body |-> <<"v", "e", "r", "s", "i", "o", "n", " ", "1", "\n", "#", " ", "V", "e", "r", "s", "i", "o", "n", " ", "2", "\n">>]

\* A file of assets/cheatsheets
File(name, file) == [name |-> name, file |-> file]

\* Files found in assets/cheatsheets
Files ==
    { File(<<"b", "o", "w", "e", "r", ".", "m", "d">>, Reviewed),
      File(<<"g", "i", "t", ".", "m", "d">>, Reviewed),
      File(<<"g", "i", "t", ".", "m", "d">>, Headed),
      File(<<"g", "i", "t", ".", "m", "d">>, Prefaced),
      File(<<"j", "s", ".", "m", "d">>, AboutNode0),
      File(<<"j", "s", ".", "m", "d">>, Bare),
      File(<<"n", "o", "d", "e", "@", "0", ".", "1", ".", "m", "d">>, Reviewed),
      File(<<"g", "i", "t", "-", "l", "o", "g", ".", "m", "d">>, Versioned),
      File(<<"_", "o", "l", "d", ".", "m", "d">>, Headed),
      File(<<"n", "o", "t", "e", "s", ".", "t", "x", "t">>, Headed) }

\* The directory that holds the given files
Directory(S) ==
    [name \in { f.name : f \in S } |-> (CHOOSE f \in S : f.name = name).file]

\* The directories assets/cheatsheets can be when the audit starts: at most
\* MaxFiles files, their names distinct
Directories ==
    { Directory(S) :
        S \in { T \in SUBSET Files :
                  /\ Cardinality(T) <= MaxFiles
                  /\ \A f, g \in T : f.name = g.name => f = g } }

\* An entry of index.json
Sheet(path, tech, status) ==
    [path |-> path, title |-> tech, tech |-> tech, version |-> Undefined,
     status |-> status, lastReviewed |-> Dates[1]]

\* Entries found in index.json
Sheets ==
    { Sheet(<<"g", "i", "t", ".", "m", "d">>, <<"g", "i", "t">>, Str.active),
      Sheet(<<"g", "i", "t", "@", "2", ".", "m", "d">>, <<"g", "i", "t">>, Str.active),
      Sheet(<<"g", "i", "t", "h", "u", "b", ".", "m", "d">>, <<"g", "i", "t", "h", "u", "b">>, Str.active),
      Sheet(<<"z", "i", "g", ".", "m", "d">>, <<"z", "i", "g">>, Str.active),
      Sheet(<<"z", "i", "g", ".", "m", "d">>, <<"z", "i", "g">>, Str.archived) }

\* The files index.json can be when a script starts
Indexes ==
    {Absent} \cup
    { [exists |-> TRUE, data |-> d] :
        d \in UNION { [1 .. n -> Sheets] : n \in 0 .. MaxSheets } }

\* Icon files found in assets
Icons == { <<"g", "i", "t", ".", "s", "v", "g">>, <<"g", "i", "t", "h", "u", "b", ".", "s", "v", "g">>, <<"z", "i", "g", ".", "s", "v", "g">> }

\* The directories assets can be when the icon audit starts
AssetDirectories == { S \cup { <<"l", "o", "g", "o", ".", "p", "n", "g">> } : S \in SUBSET Icons }

\* The files missing-icons.txt can be when the icon audit starts
MissingIconsFiles == { Absent, [exists |-> TRUE, data |-> << <<"o", "l", "d", ".", "s", "v", "g">> >>] }

(***************************************************************************)
(* Arrays and directories.                                                 *)
(***************************************************************************)
\* fs.readdirSync(dir): the names in the directory, in some order
RECURSIVE readdirSync(_)
readdirSync(names) ==
    IF names = {} THEN <<>>
    ELSE LET name == CHOOSE x \in names : TRUE
         IN <<name>> \o readdirSync(names \ {name})

\* The array without its element at position i
without(a, i) == SubSeq(a, 1, i - 1) \o SubSeq(a, i + 1, Len(a))

\* Array.prototype.sort(): by code unit
RECURSIVE sort(_)
sort(a) ==
    IF a = <<>> THEN <<>>
    ELSE LET i == CHOOSE n \in 1 .. Len(a) :
                     \A m \in 1 .. Len(a) : ~StringLess(a[m], a[n])
         IN <<a[i]>> \o sort(without(a, i))

\* fs.renameSync(from/name, to/name) on the directory it moves into
moveInto(to, from, name) ==
    [n \in DOMAIN to \cup {name} |-> IF n = name THEN from[name] ELSE to[n]]

\* fs.renameSync(from/name, to/name) on the directory it moves out of
moveOutOf(from, name) == [n \in DOMAIN from \ {name} |-> from[n]]

\* fs.writeFileSync(dir/name, file)
writeFileSync(dir, name, file) ==
    [n \in DOMAIN dir \cup {name} |-> IF n = name THEN file ELSE dir[n]]

(***************************************************************************)
(* audit-cheatsheets.ts: main.                                             *)
(***************************************************************************)
\* The script is started
AuditCheatsheets_main ==
    /\ script = "audit"
    /\ scriptPc \in {"idle", "done", "failed"}
    /\ runs < MaxRuns
    /\ runs' = runs + 1
    /\ scriptPc' = "auditCheatsheets"
    /\ files' = <<>>
    /\ cursor' = 1
    /\ result' = NoResult
    /\ audited' = {}
    /\ UNCHANGED <<uiVars, script, exitCode, today, cheatsheetsDir, archiveDir, indexJson,
                   iconVars>>

\* The day changes while the script is running
Midnight ==
    /\ script = "audit"
    /\ scriptPc \in {"auditCheatsheets", "for"}
    /\ today < Len(Dates)
    /\ today' = today + 1
    /\ UNCHANGED <<uiVars, script, scriptPc, exitCode, runs, cursor, auditVars, iconVars>>

\* Mutant of auditCheatsheets_readdirSync: names starting with '_' are scanned too.
auditCheatsheets_readdirSync_underscored ==
    /\ script = "audit"
    /\ scriptPc = "auditCheatsheets"
    /\ files' = sort(SelectSeq(readdirSync(DOMAIN cheatsheetsDir),
                               LAMBDA file : endsWith(file, DotMd)))
    /\ scriptPc' = "for"
    /\ UNCHANGED <<uiVars, script, exitCode, runs, today, cursor, cheatsheetsDir, archiveDir,
                   indexJson, result, audited, iconVars>>

\* auditCheatsheets, up to the loop: the files to audit
auditCheatsheets_readdirSync ==
    /\ script = "audit"
    /\ scriptPc = "auditCheatsheets"
    /\ files' = sort(SelectSeq(readdirSync(DOMAIN cheatsheetsDir),
                               LAMBDA file : endsWith(file, DotMd) /\ ~startsWith(file, <<"_">>)))
    /\ scriptPc' = "for"
    /\ UNCHANGED <<uiVars, script, exitCode, runs, today, cursor, cheatsheetsDir, archiveDir,
                   indexJson, result, audited, iconVars>>

\* The metadata of one file
CheatsheetMetadata(file, content) ==
    [path |-> file,
     title |-> generateTitle(file, content),
     tech |-> extractTechFromFilename(file),
     version |-> extractVersion(file, content),
     status |-> Str.active,
     lastReviewed |-> Dates[today]]

\* !data.title || !data.tech || !data.status || !data.lastReviewed
needsUpdate(parsed) ==
    \/ Falsy(data(parsed, "title"))
    \/ Falsy(data(parsed, "tech"))
    \/ Falsy(data(parsed, "status"))
    \/ Falsy(data(parsed, "lastReviewed"))

\* Mutant of updatedData: the front-matter is written anew, without the
\* fields the file had.
updatedData_anew(parsed, metadata) ==
    <<Entry("title", metadata.title), Entry("tech", metadata.tech),
      Entry("status", metadata.status), Entry("lastReviewed", metadata.lastReviewed)>>

\* The front-matter written back to a file
updatedData(parsed, metadata) ==
    LET required ==
          assign(assign(assign(assign(parsed.fm, "title", metadata.title),
                               "tech", metadata.tech),
                        "status", metadata.status),
                 "lastReviewed", metadata.lastReviewed)
    IN IF ~Falsy(metadata.version) THEN assign(required, "version", metadata.version)
       ELSE required

\* auditCheatsheets: one turn of the loop over the files
auditCheatsheets_for ==
    /\ script = "audit"
    /\ scriptPc = "for"
    /\ cursor <= Len(files)
    /\ LET file == files[cursor]
           content == cheatsheetsDir[file]
           metadata == CheatsheetMetadata(file, content)
       IN IF isOutdated(file, content)
          THEN /\ archiveDir' = moveInto(archiveDir, cheatsheetsDir, file)
               /\ cheatsheetsDir' = moveOutOf(cheatsheetsDir, file)
               /\ result' = [result EXCEPT
                    !.archived = Append(@, [metadata EXCEPT !.status = Str.archived])]
          ELSE IF needsUpdate(content)
          THEN /\ cheatsheetsDir' =
                    writeFileSync(cheatsheetsDir, file,
                                  stringify(content.body, updatedData(content, metadata)))
               /\ result' = [result EXCEPT !.updated = Append(@, metadata)]
               /\ UNCHANGED archiveDir
          ELSE /\ result' = [result EXCEPT !.kept = Append(@, metadata)]
               /\ UNCHANGED <<cheatsheetsDir, archiveDir>>
    /\ LET list == CHOOSE l \in DOMAIN result : Len(result'[l]) > Len(result[l])
       IN audited' = audited \cup
            {[file |-> files[cursor],
              content |-> cheatsheetsDir[files[cursor]],
              archived |-> files[cursor] \notin DOMAIN cheatsheetsDir',
              list |-> list,
              metadata |-> result'[list][Len(result'[list])]]}
    /\ cursor' = cursor + 1
    /\ UNCHANGED <<uiVars, script, scriptPc, exitCode, runs, today, indexJson, files, iconVars>>

\* Mutant of generateIndex: the archived records are indexed too.
generateIndex_all(r) == r.kept \o r.updated \o r.archived

\* generateIndex(result): the data written to index.json
generateIndex(r) == r.kept \o r.updated

\* main, after the loop: the index is written and the script ends
AuditCheatsheets_generateIndex ==
    /\ script = "audit"
    /\ scriptPc = "for"
    /\ cursor > Len(files)
    /\ indexJson' = [exists |-> TRUE, data |-> generateIndex(result)]
    /\ scriptPc' = "done"
    /\ exitCode' = <<0>>
    /\ UNCHANGED <<uiVars, script, runs, today, cursor, cheatsheetsDir, archiveDir, files,
                   result, audited, iconVars>>

\* Mutant of AuditCheatsheets_catch: the failure is not reported in the status.
AuditCheatsheets_catch_exit0 ==
    /\ script = "audit"
    /\ scriptPc \in {"auditCheatsheets", "for"}
    /\ scriptPc' = "failed"
    /\ exitCode' = <<0>>
    /\ UNCHANGED <<uiVars, script, runs, today, cursor, auditVars, iconVars>>

\* main: a step of the audit throws (a file cannot be read, moved or written,
\* front-matter cannot be parsed); the catch block ends the process
AuditCheatsheets_catch ==
    /\ script = "audit"
    /\ scriptPc \in {"auditCheatsheets", "for"}
    /\ scriptPc' = "failed"
    /\ exitCode' = <<1>>
    /\ UNCHANGED <<uiVars, script, runs, today, cursor, auditVars, iconVars>>

(***************************************************************************)
(* audit-icons.ts.                                                         *)
(***************************************************************************)
\* TECH_TO_ICON_MAP[tech], or undefined
directIcon(tech) ==
    IF \E e \in TECH_TO_ICON_MAP : e[1] = tech
    THEN (CHOOSE e \in TECH_TO_ICON_MAP : e[1] = tech)[2]
    ELSE Undefined

\* Mutant of matchingPatterns: a pattern counts whether or not its icon exists.
matchingPatterns_anyIcon(tech, icons) ==
    { p \in 1 .. Len(ICON_PATTERNS) : testIcon(ICON_PATTERNS[p].pattern, tech) }

\* The patterns of ICON_PATTERNS that match the tag and whose icon exists
matchingPatterns(tech, icons) ==
    { p \in 1 .. Len(ICON_PATTERNS) :
        testIcon(ICON_PATTERNS[p].pattern, tech) /\ ICON_PATTERNS[p].icon \in Range(icons) }

\* Mutant of findIconForCheatsheet: the icon is looked up by the file's name.
findIconForCheatsheet_byPath(cheatsheet, icons) ==
    IF basename(cheatsheet.path) \o DotSvg \in Range(icons)
    THEN basename(cheatsheet.path) \o DotSvg
    ELSE Null

\* findIconForCheatsheet(cheatsheet, existingIcons)
findIconForCheatsheet(cheatsheet, icons) ==
    IF ~Falsy(directIcon(cheatsheet.tech)) /\ directIcon(cheatsheet.tech) \in Range(icons)
    THEN directIcon(cheatsheet.tech)
    ELSE IF matchingPatterns(cheatsheet.tech, icons) # {}
    THEN ICON_PATTERNS[CHOOSE p \in matchingPatterns(cheatsheet.tech, icons) :
                          \A q \in matchingPatterns(cheatsheet.tech, icons) : p <= q].icon
    ELSE IF cheatsheet.tech \o DotSvg \in Range(icons)
    THEN cheatsheet.tech \o DotSvg
    ELSE Null

\* The script is started
AuditIcons_main ==
    /\ script = "icons"
    /\ scriptPc \in {"idle", "done", "failed"}
    /\ runs < MaxRuns
    /\ runs' = runs + 1
    /\ scriptPc' = "analyzeIcons"
    /\ cursor' = 1
    /\ activeCheatsheets' = <<>>
    /\ existingIcons' = <<>>
    /\ requiredIcons' = {}
    /\ missingIcons' = <<>>
    /\ unusedIcons' = <<>>
    /\ UNCHANGED <<uiVars, script, exitCode, today, auditVars, assetsDir, iconArchive,
                   missingIconsTxt, resolved>>

\* analyzeIcons, up to the loop: getActiveCheatsheets(), which ends the
\* process when there is no index.json, and getExistingIcons()
getActiveCheatsheets ==
    /\ script = "icons"
    /\ scriptPc = "analyzeIcons"
    /\ IF ~indexJson.exists
       THEN /\ scriptPc' = "failed"
            /\ exitCode' = <<1>>
            /\ UNCHANGED <<activeCheatsheets, existingIcons>>
       ELSE /\ activeCheatsheets' = SelectSeq(indexJson.data, LAMBDA c : c.status = Str.active)
            /\ existingIcons' = sort(SelectSeq(readdirSync(assetsDir),
                                               LAMBDA file : endsWith(file, DotSvg)))
            /\ scriptPc' = "for"
            /\ UNCHANGED exitCode
    /\ UNCHANGED <<uiVars, script, runs, today, cursor, auditVars, assetsDir, iconArchive,
                   missingIconsTxt, requiredIcons, missingIcons, unusedIcons, resolved>>

\* analyzeIcons: one turn of the loop over the active cheatsheets
analyzeIcons_for ==
    /\ script = "icons"
    /\ scriptPc = "for"
    /\ cursor <= Len(activeCheatsheets)
    /\ LET cheatsheet == activeCheatsheets[cursor]
           icon == findIconForCheatsheet(cheatsheet, existingIcons)
       IN /\ IF icon # Null
             THEN /\ requiredIcons' = requiredIcons \cup {icon}
                  /\ UNCHANGED missingIcons
             ELSE /\ missingIcons' = Append(missingIcons, cheatsheet.tech)
                  /\ UNCHANGED requiredIcons
          /\ resolved' = resolved \cup
                {[tech |-> cheatsheet.tech, path |-> cheatsheet.path, icon |-> icon]}
    /\ cursor' = cursor + 1
    /\ UNCHANGED <<uiVars, script, scriptPc, exitCode, runs, today, auditVars, assetsDir,
                   iconArchive, missingIconsTxt, activeCheatsheets, existingIcons, unusedIcons>>

\* Mutant of analyzeIcons_return: every existing icon counts as unused.
analyzeIcons_return_all ==
    /\ script = "icons"
    /\ scriptPc = "for"
    /\ cursor > Len(activeCheatsheets)
    /\ unusedIcons' = sort(existingIcons)
    /\ missingIcons' = sort(missingIcons)
    /\ scriptPc' = "removeUnusedIcons"
    /\ cursor' = 1
    /\ UNCHANGED <<uiVars, script, exitCode, runs, today, auditVars, assetsDir, iconArchive,
                   missingIconsTxt, activeCheatsheets, existingIcons, requiredIcons, resolved>>

\* analyzeIcons, after the loop: the unused icons, and the sorted lists
analyzeIcons_return ==
    /\ script = "icons"
    /\ scriptPc = "for"
    /\ cursor > Len(activeCheatsheets)
    /\ unusedIcons' = sort(SelectSeq(existingIcons, LAMBDA icon : icon \notin requiredIcons))
    /\ missingIcons' = sort(missingIcons)
    /\ scriptPc' = "removeUnusedIcons"
    /\ cursor' = 1
    /\ UNCHANGED <<uiVars, script, exitCode, runs, today, auditVars, assetsDir, iconArchive,
                   missingIconsTxt, activeCheatsheets, existingIcons, requiredIcons, resolved>>

\* removeUnusedIcons: one turn of the loop over the unused icons
removeUnusedIcons_for ==
    /\ script = "icons"
    /\ scriptPc = "removeUnusedIcons"
    /\ cursor <= Len(unusedIcons)
    /\ IF unusedIcons[cursor] \in assetsDir
       THEN /\ assetsDir' = assetsDir \ {unusedIcons[cursor]}
            /\ iconArchive' = iconArchive \cup {unusedIcons[cursor]}
       ELSE UNCHANGED <<assetsDir, iconArchive>>
    /\ cursor' = cursor + 1
    /\ UNCHANGED <<uiVars, script, scriptPc, exitCode, runs, today, auditVars, missingIconsTxt,
                   activeCheatsheets, existingIcons, requiredIcons, missingIcons, unusedIcons,
                   resolved>>

\* main, after removeUnusedIcons: generateMissingIconsList(analysis.missing),
\* and the script ends
generateMissingIconsList ==
    /\ script = "icons"
    /\ scriptPc = "removeUnusedIcons"
    /\ cursor > Len(unusedIcons)
    /\ IF Len(missingIcons) = 0
       THEN UNCHANGED missingIconsTxt
       ELSE missingIconsTxt' =
              [exists |-> TRUE,
               data |-> [i \in 1 .. Len(missingIcons) |-> missingIcons[i] \o DotSvg]]
    /\ scriptPc' = "done"
    /\ exitCode' = <<0>>
    /\ UNCHANGED <<uiVars, script, runs, today, cursor, auditVars, assetsDir, iconArchive,
                   activeCheatsheets, existingIcons, requiredIcons, missingIcons, unusedIcons,
                   resolved>>

\* main: a step of the icon audit throws (a directory cannot be read,
\* index.json cannot be parsed, a file cannot be moved or written); the catch
\* block ends the process
AuditIcons_catch ==
    /\ script = "icons"
    /\ scriptPc \in {"analyzeIcons", "for", "removeUnusedIcons"}
    /\ scriptPc' = "failed"
    /\ exitCode' = <<1>>
    /\ UNCHANGED <<uiVars, script, runs, today, cursor, auditVars, iconVars>>

(***************************************************************************)
(* The scripts: specification.                                             *)
(***************************************************************************)
UiIdle == component = "none" /\ PanelIdle /\ FormsIdle

NoLocals ==
    /\ scriptPc = "idle"
    /\ exitCode = <<>>
    /\ runs = 0
    /\ today = 1
    /\ cursor = 1
    /\ files = <<>>
    /\ result = NoResult
    /\ audited = {}
    /\ activeCheatsheets = <<>>
    /\ existingIcons = <<>>
    /\ requiredIcons = {}
    /\ missingIcons = <<>>
    /\ unusedIcons = <<>>
    /\ resolved = {}

InitAuditCheatsheets ==
    /\ script = "audit"
    /\ cheatsheetsDir \in Directories
    /\ archiveDir = <<>>
    /\ indexJson \in {Absent, [exists |-> TRUE, data |-> <<>>]}
    /\ assetsDir = {}
    /\ iconArchive = {}
    /\ missingIconsTxt = Absent
    /\ NoLocals
    /\ UiIdle

InitAuditIcons ==
    /\ script = "icons"
    /\ cheatsheetsDir = <<>>
    /\ archiveDir = <<>>
    /\ indexJson \in Indexes
    /\ assetsDir \in AssetDirectories
    /\ iconArchive = {}
    /\ missingIconsTxt \in MissingIconsFiles
    /\ NoLocals
    /\ UiIdle

InitScripts == InitAuditCheatsheets \/ InitAuditIcons

NextScripts ==
    \/ AuditCheatsheets_main
    \/ Midnight
    \/ auditCheatsheets_readdirSync
    \/ auditCheatsheets_for
    \/ AuditCheatsheets_generateIndex
    \/ AuditCheatsheets_catch
    \/ AuditIcons_main
    \/ getActiveCheatsheets
    \/ analyzeIcons_for
    \/ analyzeIcons_return
    \/ removeUnusedIcons_for
    \/ generateMissingIconsList
    \/ AuditIcons_catch

SpecScripts == InitScripts /\ [][NextScripts]_vars

(***************************************************************************)
(* Properties.                                                             *)
(***************************************************************************)
\* A text that is missing, empty or made of whitespace only.
Blank(s) == s = Undefined \/ \A i \in 1 .. Len(s) : IsWhitespace(s[i])

\* t is s without its leading and trailing whitespace.
IsTrimOf(t, s) ==
    \E i \in 1 .. Len(s) + 1 : \E j \in i - 1 .. Len(s) :
        /\ t = SubSeq(s, i, j)
        /\ \A n \in 1 .. i - 1 : IsWhitespace(s[n])
        /\ \A n \in j + 1 .. Len(s) : IsWhitespace(s[n])
        /\ t # <<>> => ~IsWhitespace(t[1]) /\ ~IsWhitespace(t[Len(t)])

CallsOf(k) == { c \in calls : c.op = k }

\* C1: a handleSubmit call (add form or edit form) whose name or owner is
\* missing, empty or whitespace-only makes no service call, does not pop the
\* form and does not call onAdded / onUpdated: the step that starts it leaves
\* the call log, the pop count, the callback count and the form as they are,
\* and the call never gets past validation.
C1_BlankSubmitRejected ==
    [][\A k \in 1 .. Len(submits') :
          (Blank(submits'[k].values.name) \/ Blank(submits'[k].values.owner))
          => /\ submits'[k].pc = "invalid"
             /\ k \notin SubmitIds
                => /\ calls' = calls
                   /\ popped' = popped
                   /\ notified' = notified
                   /\ formOpen' = formOpen]_vars

\* C1 witness: a submission with a whitespace-only name was rejected: the
\* form is still open and no call was made.
C1_Witness ==
    /\ \E k \in SubmitIds : submits[k].pc = "invalid" /\ submits[k].values.name = <<" ">>
    /\ formOpen
    /\ calls = {}

\* C2: Service.removeUserRepository is called only in the step in which
\* confirmAlert resolves to true, and for that operation's id; a declined
\* confirmation ends the operation with no service call, no reload, and the
\* displayed list, the store and isLoading unchanged.
C2_DeleteRequiresConfirmation ==
    /\ [](\A o \in OpIds :
            (ops[o].fn = "handleDeleteRepo" /\ ops[o].confirmed # "yes")
            => /\ CallsOf(o) = {}
               /\ ops[o].pc \in {"confirmAlert", "done"}
               /\ ops[o].loadNo = 0)
    /\ [][/\ \A c \in calls' \ calls :
               c.fn = "removeUserRepository"
               => /\ Awaiting(c.op, "confirmAlert")
                  /\ ops'[c.op].confirmed = "yes"
                  /\ ops[c.op].fn = "handleDeleteRepo"
                  /\ c.arg = ops[c.op].id
         /\ \A o \in OpIds :
               (ops[o].pc = "confirmAlert" /\ ops'[o].confirmed # "yes" /\ ops'[o] # ops[o])
               => /\ ops' = [ops EXCEPT ![o].pc = "done", ![o].confirmed = "no"]
                  /\ calls' = calls
                  /\ repos' = repos
                  /\ store' = store
                  /\ isLoading' = isLoading]_vars

\* C2 witness: one removal was declined and another was confirmed and made.
C2_Witness ==
    /\ \E o \in OpIds : ops[o].confirmed = "no" /\ ops[o].pc = "done"
    /\ \E o \in OpIds : ops[o].confirmed = "yes" /\ Call("removeUserRepository", o, ops[o].id) \in calls

\* How the form shows a field of the record: an absent value as the empty text.
Shown(x) == IF x = Undefined THEN <<>> ELSE x

UpdateCallsOf(k) == { c \in CallsOf(k) : c.fn = "updateUserRepository" }

\* C3 as stated: the edit form's fields start as the record's fields, and
\* submitting the untouched form sends those same values to
\* updateUserRepository for the record's id.
C3_Original ==
    /\ (component = "edit" /\ formOpen /\ touched = {})
       => \A f \in EditFields : formData[f] = Shown(repo[f])
    /\ \A k \in SubmitIds :
          (component = "edit" /\ submits[k].untouched /\ submits[k].values = initialFormData(submits[k].repo))
          => \A c \in UpdateCallsOf(k) :
                /\ c.arg.id = submits[k].repo.id
                /\ \A f \in EditFields : c.arg.updates[f] = submits[k].repo[f]

\* C3 as amended: the fields start as the record's fields (an absent
\* description as the empty text); submitting the untouched form, when name
\* and owner are not blank, calls updateUserRepository once for the record's
\* id with each value trimmed, an empty description or url sent as undefined.
C3_EditPrepopulates ==
    /\ (component = "edit" /\ formOpen /\ touched = {})
       => \A f \in EditFields : formData[f] = Shown(repo[f])
    /\ \A k \in SubmitIds :
          (component = "edit" /\ submits[k].untouched /\ submits[k].values = initialFormData(submits[k].repo))
          => LET r == submits[k].repo
             IN IF Blank(r.name) \/ Blank(r.owner)
                THEN UpdateCallsOf(k) = {}
                ELSE /\ Cardinality(UpdateCallsOf(k)) = 1
                     /\ \A c \in UpdateCallsOf(k) :
                          /\ c.arg.id = r.id
                          /\ IsTrimOf(c.arg.updates.name, r.name)
                          /\ IsTrimOf(c.arg.updates.owner, r.owner)
                          /\ IsTrimOf(c.arg.updates.defaultBranch, r.defaultBranch)
                          /\ \A f \in {"description", "url"} :
                               IF Blank(r[f])
                               THEN c.arg.updates[f] = Undefined
                               ELSE IsTrimOf(c.arg.updates[f], r[f])

\* C3 witness: the untouched form of a record whose name carries whitespace
\* was submitted and the update call was made.
C3_Witness ==
    \E k \in SubmitIds :
        /\ component = "edit"
        /\ submits[k].untouched
        /\ submits[k].values = initialFormData(submits[k].repo)
        /\ submits[k].repo.name = <<" ", "a">>
        /\ submits[k].repo.description = Undefined
        /\ UpdateCallsOf(k) # {}

\* A field's draft had been entered in an earlier opening of the form, the
\* form is open again, the field's stored draft has been loaded and the
\* field was not edited or reset since.
DraftRestoredCase(f) ==
    /\ component = "add"
    /\ formOpen
    /\ ~getItem[f].pending
    /\ f \notin touched
    /\ lastEntered[f] # NotEntered

\* C7 as stated: a value entered in a field, the form then closed without a
\* successful submit, is shown again on the next opening once the stored
\* draft has been loaded.
C7_Original ==
    \A f \in AddFields :
        (DraftRestoredCase(f) /\ cleared[f] # "submit") => value[f] = lastEntered[f]

\* C7 as amended: the same, provided neither Reset Form nor a successful
\* submit has cleared the draft since the value was entered.
C7_DraftSurvivesClose ==
    \A f \in AddFields :
        (DraftRestoredCase(f) /\ cleared[f] = "no") => value[f] = lastEntered[f]

\* C7 witness: a name and a checkbox value entered before the form was closed are shown
\* after it is opened again.
C7_Witness ==
    /\ DraftRestoredCase("name")
    /\ DraftRestoredCase("isPrivate")
    /\ cleared["name"] = "no"
    /\ value["name"] = <<"a">>
    /\ value["isPrivate"] = True
    /\ nOpens = 2

\* C8: every rejected service call (load, add, update, remove, sync) shows
\* exactly one failure toast, and the step that handles the rejection makes
\* no further call, starts no operation, ends the failing one, and leaves
\* the displayed list, the store, the form, the fields and the drafts as
\* they are.
C8_FailureSurfacedAndAbandoned ==
    /\ [](toasts = failures)
    /\ [][failures' # failures
          => /\ failures' = failures + 1
             /\ toasts' = toasts + 1
             /\ calls' = calls
             /\ Len(ops') = Len(ops)
             /\ Len(submits') = Len(submits)
             /\ \A o \in OpIds : ops'[o] # ops[o] => ops'[o].pc = "failed"
             /\ \A k \in SubmitIds : submits'[k] # submits[k] => submits'[k].pc = "failed"
             /\ repos' = repos
             /\ store' = store
             /\ formOpen' = formOpen
             /\ value' = value
             /\ formData' = formData
             /\ LocalStorage' = LocalStorage
             /\ popped' = popped
             /\ notified' = notified]_vars

\* C8 witness: a load failed while a list was displayed.
C8_Witness ==
    /\ \E o \in OpIds : ops[o].pc = "failed" /\ ops[o].loadNo > 0
    /\ repos.ids # {}
    /\ toasts = 1

\* The operations whose Service.getUserRepositories call has resolved.
LoadsDone == { o \in OpIds : ops[o].pc = "done" /\ ops[o].loadNo > 0 }

\* C10: isLoading is never false while a load is pending, and once every
\* operation has finished the displayed list is the one returned to the load
\* that was started last among those that succeeded, whatever the order in
\* which the loads completed.
C10_NoSharedState ==
    /\ PendingLoads # {} => isLoading
    /\ (component = "panel" /\ Quiescent)
       => \A o \in LoadsDone :
             (\A p \in LoadsDone : ops[p].loadNo <= ops[o].loadNo) => repos = ops[o].result

\* The static outdated patterns: the technologies of OUTDATED_TECHS, which a
\* file matches by its name without `.md', the expressions of
\* OUTDATED_PATTERNS, tried on the name and on the text, and the expressions
\* isOutdated keeps for the text.
MatchesStaticPattern(filename, text) ==
    \/ \E tech \in OUTDATED_TECHS : filename \in {tech, tech \o DotMd}
    \/ \E p \in Range(OUTDATED_PATTERNS) : test(p, filename) \/ test(p, text)
    \/ \E p \in Range(outdatedContentPatterns) : test(p, text)

\* C4: the audit marks a file outdated (moves it to the archive) if and only
\* if its name or its text matches one of the static outdated patterns; a
\* file that matches none is never marked outdated.
C4_OutdatedIffPatternMatches ==
    [][\A a \in audited' \ audited :
          a.archived <=> MatchesStaticPattern(a.file, Text(a.content))]_vars

\* C4 happens: the audit has read bower.md, whose name is in OUTDATED_TECHS
\* and which it archived, and another file, which matches nothing and which
\* it left in place.
C4_Witness ==
    \E a, b \in audited :
        /\ a.file = <<"b", "o", "w", "e", "r", ".", "m", "d">>
        /\ a.archived
        /\ ~b.archived

\* C5: findIconForCheatsheet gives one answer per technology tag, an icon
\* that exists or null: two calls for the same tag return the same result,
\* whichever cheatsheets carry the tag, in whatever order they are looked up,
\* in the same run or in a later one.
C5_OneIconPerTech ==
    /\ \A a, b \in resolved : a.tech = b.tech => a.icon = b.icon
    /\ \A a \in resolved :
          a.icon # Null => endsWith(a.icon, DotSvg) /\ a.icon \in assetsDir \cup iconArchive

\* C5 happens: the icon audit has completed a second run, and has resolved
\* the same tag for two different cheatsheets and found an icon for it.
C5_Witness ==
    /\ script = "icons"
    /\ scriptPc = "done"
    /\ runs > 1
    /\ \E a, b \in resolved :
          /\ a.tech = b.tech
          /\ a.path # b.path
          /\ a.icon # Null

\* C6: when the cheatsheet audit has completed, index.json has exactly one
\* entry for every file the run scanned and left in the directory (kept or
\* updated), none for a file the run archived, and every entry has status
\* 'active'.
C6_IndexHoldsTheNonArchived ==
    script = "audit" /\ scriptPc = "done" =>
        LET scanned == Range(files)
            remaining == scanned \cap DOMAIN cheatsheetsDir
        IN /\ indexJson.exists
           /\ { e.path : e \in Range(indexJson.data) } = remaining
           /\ Len(indexJson.data) = Cardinality(remaining)
           /\ scanned \ remaining \subseteq DOMAIN archiveDir
           /\ \A e \in Range(indexJson.data) : e.status = Str.active

\* C6 happens: a completed audit has archived a file and indexed another.
C6_Witness ==
    /\ script = "audit"
    /\ scriptPc = "done"
    /\ Len(indexJson.data) >= 1
    /\ \E f \in Range(files) : f \notin DOMAIN cheatsheetsDir

\* C9: a script that fails ends with status 1.  A failing step of the
\* cheatsheet audit leaves index.json and the two directories as they are,
\* so the moves already made stay, and index.json is written only by the
\* step that completes the audit.  The icon audit started without index.json
\* fails in its first step, and icons are moved and missing-icons.txt is
\* written only where index.json exists.
C9_FailuresExitWithStatus1 ==
    /\ [](scriptPc = "failed" => exitCode = <<1>>)
    /\ [][script = "audit" /\ scriptPc' = "failed" /\ scriptPc # "failed"
            => UNCHANGED <<indexJson, cheatsheetsDir, archiveDir>>]_vars
    /\ [][script = "audit" /\ indexJson' # indexJson
            => scriptPc' = "done" /\ exitCode' = <<0>>]_vars
    /\ [][script = "icons" /\ scriptPc = "analyzeIcons" /\ ~indexJson.exists
            => /\ scriptPc' = "failed"
               /\ exitCode' = <<1>>
               /\ UNCHANGED <<assetsDir, iconArchive, missingIconsTxt>>]_vars
    /\ [][assetsDir' # assetsDir \/ iconArchive' # iconArchive
            \/ missingIconsTxt' # missingIconsTxt
            => indexJson.exists /\ scriptPc = "removeUnusedIcons"]_vars

\* C9 happens: the first run of the cheatsheet audit has failed after it
\* moved a file to the archive; there is no index.json.
C9_Witness ==
    /\ script = "audit"
    /\ scriptPc = "failed"
    /\ runs = 1
    /\ cursor > 1
    /\ archiveDir # <<>>
    /\ ~indexJson.exists

\* The files that have the name and the front-matter of an audited file, and
\* any of the bodies found in assets/cheatsheets.
Twins(a) == { [fm |-> a.content.fm, body |-> f.file.body] : f \in Files }

\* The name alone marks the file outdated.
NameOutdated(filename) ==
    \/ basename(filename) \in OUTDATED_TECHS
    \/ \E p \in Range(OUTDATED_PATTERNS) : test(p, filename)

\* C11 as stated: a file with the same name and the same front-matter as an
\* audited file yields the same title, tech, version and status, whatever
\* the rest of its content is.
C11_Original ==
    [][\A a \in audited' \ audited : \A twin \in Twins(a) :
          /\ generateTitle(a.file, twin) = a.metadata.title
          /\ extractTechFromFilename(a.file) = a.metadata.tech
          /\ extractVersion(a.file, twin) = a.metadata.version
          /\ isOutdated(a.file, twin) <=> a.metadata.status = Str.archived]_vars

\* C11 as amended: a file with the same name and the same front-matter as an
\* audited file yields the same tech; the same title when the front-matter
\* has a title; the same version when the name carries `@' and a version;
\* the same status when the name alone marks the file outdated.
C11_MetadataFromNameAndFrontMatter ==
    [][\A a \in audited' \ audited : \A twin \in Twins(a) :
          /\ extractTechFromFilename(a.file) = a.metadata.tech
          /\ ~Falsy(data(a.content, "title"))
                => generateTitle(a.file, twin) = a.metadata.title
          /\ atVersionStart(a.file) # 0
                => extractVersion(a.file, twin) = a.metadata.version
          /\ NameOutdated(a.file)
                => isOutdated(a.file, twin) /\ a.metadata.status = Str.archived]_vars

\* C11 happens: the audit has read a file whose front-matter has a title and
\* whose body has no heading, where files of the same name and front-matter
\* have one, and has taken the title from the front-matter.
C11_Witness ==
    \E a \in audited :
        /\ ~Falsy(data(a.content, "title"))
        /\ firstHeading(a.content.body) = Undefined
        /\ \E twin \in Twins(a) : firstHeading(twin.body) # Undefined
        /\ a.metadata.title = data(a.content, "title")
        /\ a.list = "updated"

\* A name the audit scans: it ends in '.md' and does not start with '_'
Scanned(name) == endsWith(name, DotMd) /\ ~startsWith(name, <<"_">>)

\* The records of a file in one of the result lists
RecordsOf(file, list) == { j \in 1 .. Len(result[list]) : result[list][j].path = file }

\* C12: the cheatsheet audit classifies every scanned file exactly once.  The
\* files of a run are exactly the names of the cheatsheets directory that end
\* in '.md' and do not start with '_'; when the run has completed, each of
\* them has exactly one record in kept, updated and archived together, the
\* record is in archived if and only if isOutdated held for the file, and the
\* archived files, and no others, are in _archive and gone from the
\* directory.  A step moves a file to _archive only with its record appended
\* to archived.
C12_EveryFileClassifiedOnce ==
    /\ [](script = "audit" /\ scriptPc = "done" =>
            \A i \in 1 .. Len(files) :
                LET file == files[i]
                IN /\ Scanned(file)
                   /\ Cardinality(RecordsOf(file, "kept")) + Cardinality(RecordsOf(file, "updated"))
                        + Cardinality(RecordsOf(file, "archived")) = 1
                   /\ \E a \in audited :
                        /\ a.file = file
                        /\ RecordsOf(file, "archived") # {} <=> isOutdated(file, a.content)
                   /\ RecordsOf(file, "archived") # {} <=> file \in DOMAIN archiveDir
                   /\ RecordsOf(file, "archived") = {} <=> file \in DOMAIN cheatsheetsDir)
    /\ [][/\ scriptPc = "auditCheatsheets" /\ scriptPc' = "for" =>
               Range(files') = { name \in DOMAIN cheatsheetsDir : Scanned(name) }
          /\ \A name \in DOMAIN archiveDir' \ DOMAIN archiveDir :
               /\ Len(result'.archived) = Len(result.archived) + 1
               /\ result'.archived[Len(result'.archived)].path = name
               /\ archiveDir'[name] = cheatsheetsDir[name]]_vars

\* C12 witness: a completed run over two files, one archived and moved, the
\* other one kept or updated and still in the directory.
C12_Witness ==
    /\ script = "audit" /\ scriptPc = "done"
    /\ Len(files) = 2
    /\ Len(result.archived) = 1
    /\ Len(result.kept) + Len(result.updated) = 1
    /\ DOMAIN archiveDir = {result.archived[1].path}
    /\ Cardinality({ name \in DOMAIN cheatsheetsDir : Scanned(name) }) = 1

\* C13: the icon audit retires exactly the unused icons by moving them to
\* _archive.  Once analyzeIcons has returned, every existing .svg icon is
\* either required or unused and never both, and every required icon exists;
\* a step moves an icon out of the assets directory only if it is in unused,
\* and moves it into _archive; when the run has completed, every unused icon
\* is in _archive and gone from the assets directory, and every icon that was
\* resolved for an active cheatsheet of index.json is still in the assets
\* directory.
C13_ExactlyTheUnusedRetired ==
    /\ [](script = "icons" /\ scriptPc \in {"removeUnusedIcons", "done"} =>
            /\ \A icon \in Range(existingIcons) :
                 icon \in requiredIcons <=> icon \notin Range(unusedIcons)
            /\ Range(unusedIcons) \subseteq Range(existingIcons)
            /\ requiredIcons \subseteq Range(existingIcons))
    /\ [](script = "icons" /\ scriptPc = "done" =>
            /\ \A icon \in Range(unusedIcons) : icon \in iconArchive /\ icon \notin assetsDir
            /\ \A r \in resolved :
                 r.icon # Null /\ (\E i \in 1 .. Len(indexJson.data) :
                                      /\ indexJson.data[i].path = r.path
                                      /\ indexJson.data[i].status = Str.active)
                   => r.icon \in assetsDir)
    /\ [][\A icon \in assetsDir \ assetsDir' :
             /\ icon \in Range(unusedIcons)
             /\ icon \in iconArchive'
             /\ assetsDir' = assetsDir \ {icon}]_vars

\* C13 witness: a completed run that resolved an icon for an active
\* cheatsheet and kept it, and moved another icon to _archive.
C13_Witness ==
    /\ script = "icons" /\ scriptPc = "done"
    /\ \E r \in resolved : r.icon # Null /\ r.icon \in assetsDir /\ r.icon \in requiredIcons
    /\ \E icon \in iconArchive : icon \in Range(unusedIcons) /\ icon \notin assetsDir

\* The lines of a text file; a file that does not exist has none
Lines(file) == IF file.exists THEN file.data ELSE <<>>

\* The line of missing-icons.txt for each active cheatsheet of the run for
\* which findIconForCheatsheet found no icon
UnresolvedLines ==
    LET unresolved == SelectSeq(activeCheatsheets,
                                LAMBDA c : findIconForCheatsheet(c, existingIcons) = Null)
    IN [i \in 1 .. Len(unresolved) |-> unresolved[i].tech \o DotSvg]

\* C14: after a completed icon audit, missing-icons.txt contains exactly the
\* line '<tech>.svg' for each active cheatsheet for which no icon was resolved
\* in that run, and no other lines (the lines are compared up to their order).
C14_MissingIconsListed ==
    script = "icons" /\ scriptPc = "done" =>
        sort(Lines(missingIconsTxt)) = sort(UnresolvedLines)

\* The icons the lookup considers for a tag, in the order it considers them:
\* the TECH_TO_ICON_MAP entry, the icons of the matching ICON_PATTERNS entries
\* in table order, '<tech>.svg'
Candidates(tech) ==
    LET matching == SelectSeq(ICON_PATTERNS, LAMBDA p : testIcon(p.pattern, tech))
    IN (IF directIcon(tech) = Undefined THEN <<>> ELSE <<directIcon(tech)>>)
         \o [i \in 1 .. Len(matching) |-> matching[i].icon]
         \o <<tech \o DotSvg>>

\* The first of the candidates that is among the icons, or null
FirstExisting(candidates, icons) ==
    IF \E i \in 1 .. Len(candidates) : candidates[i] \in icons
    THEN candidates[CHOOSE i \in 1 .. Len(candidates) :
                       /\ candidates[i] \in icons
                       /\ \A j \in 1 .. i - 1 : candidates[j] \notin icons]
    ELSE Null

\* C15: the icon table is consulted linearly.  Every lookup of the icon audit
\* returns the first icon that exists among the direct TECH_TO_ICON_MAP
\* entry, the icons of the ICON_PATTERNS entries matching the tag in table
\* order, and '<tech>.svg'; it returns null when none of them exists, and a
\* non-null result is one of the existing icons.
C15_TableConsultedLinearly ==
    [][\A r \in resolved' \ resolved :
          /\ r.icon = FirstExisting(Candidates(r.tech), Range(existingIcons))
          /\ r.icon # Null => r.icon \in Range(existingIcons)]_vars

\* C15 witness: a lookup skipped a matching pattern whose icon does not exist
\* and returned the icon of a later matching pattern.
C15_Witness ==
    \E r \in resolved :
        /\ script = "icons" /\ scriptPc = "for"
        /\ r.icon # Null
        /\ r.icon # directIcon(r.tech)
        /\ r.icon # r.tech \o DotSvg
        /\ \E p, q \in 1 .. Len(ICON_PATTERNS) :
              /\ p < q
              /\ testIcon(ICON_PATTERNS[p].pattern, r.tech)
              /\ ICON_PATTERNS[p].icon \notin Range(existingIcons)
              /\ testIcon(ICON_PATTERNS[q].pattern, r.tech)
              /\ ICON_PATTERNS[q].icon = r.icon

\* What is stored under the draft key of a field, or the field's default when
\* nothing is stored
StoredOrDefault(f) ==
    IF LocalStorage[DraftKey[f]] = Undefined THEN defaultValue[f] ELSE LocalStorage[DraftKey[f]]

\* C16: a stored draft that arrives late never overwrites what the user
\* typed.  In the open add form, once the initial LocalStorage.getItem of
\* every field has resolved, a field the user typed in since the form was
\* opened, and did not reset afterwards, shows the value typed last, and
\* every field shows the value stored under its key, or its default when
\* nothing is stored.
C16_LateDraftKeepsTypedValue ==
    (component = "add" /\ formOpen /\ \A g \in AddFields : ~getItem[g].pending) =>
        \A f \in AddFields :
            /\ (f \in touched /\ cleared[f] = "no" /\ lastEntered[f] # NotEntered)
                  => value[f] = lastEntered[f]
            /\ value[f] = StoredOrDefault(f)

\* A handleSubmit call that awaits its service call
AwaitingCall(k) == k \in SubmitIds /\ submits[k].pc \in {"addUserRepository", "updateUserRepository"}

\* C17: every form submission eventually releases the submitting state.
\* A handleSubmit of the add form or the edit form that validation rejects
\* leaves isSubmitting false at once; one that calls the service is followed,
\* the call having resolved or rejected, by a state in which it has ended and
\* isSubmitting is false.
C17_SubmittingReleased ==
    /\ [][\A k \in SubmitIds' \ SubmitIds : submits'[k].pc = "invalid" => ~isSubmitting']_vars
    /\ \A k \in 1 .. MaxActions :
          AwaitingCall(k) ~> (k \in SubmitIds /\ ~AwaitingCall(k) /\ ~isSubmitting)

\* C17 witness: the three paths have been taken, a submission rejected by the
\* validation, one whose call resolved and one whose call rejected while its
\* form was still mounted, and isSubmitting is false.
C17_Witness ==
    /\ ~isSubmitting
    /\ \E i, j, k \in SubmitIds :
          /\ submits[i].pc = "invalid"
          /\ submits[j].pc = "failed" /\ submits[j].instance = submits[i].instance
          /\ submits[k].pc \in {"added", "updated"}

\* The position of a call among the calls a handleSubmit made after its
\* await, or 0 when it did not make it
StepOf(k, call) ==
    IF \E i \in 1 .. Len(submits[k].steps) : submits[k].steps[i] = call
    THEN CHOOSE i \in 1 .. Len(submits[k].steps) : submits[k].steps[i] = call
    ELSE 0

ClearDraftCalls ==
    {"clearNameDraft", "clearOwnerDraft", "clearDescriptionDraft", "clearUrlDraft",
     "clearIsPrivateDraft", "clearDefaultBranchDraft"}

\* C18: in the add form the steps of a successful submission happen in a
\* fixed order and only on success.  The step in which Service.addUserRepository
\* resolves, the call having been made before, removes the six draft keys from
\* storage, resets the fields to '', '', '', '', false and 'main', calls
\* onAdded once and pops the form once; the handler makes the six clearDraft
\* calls first, then onAdded, then pop.  The step in which the call rejects
\* changes neither the drafts nor the fields, does not call onAdded and does
\* not pop the form; and no other step of the add form calls onAdded or pop.
C18_SuccessStepsInOrder ==
    /\ [](component = "add" =>
            \A k \in SubmitIds :
                /\ submits[k].pc = "added" =>
                     /\ \A c \in ClearDraftCalls :
                          StepOf(k, c) > 0 /\ StepOf(k, c) < StepOf(k, "onAdded")
                     /\ StepOf(k, "onAdded") < StepOf(k, "pop")
                /\ submits[k].pc # "added" =>
                     \A c \in ClearDraftCalls \cup {"onAdded", "pop"} : StepOf(k, c) = 0)
    /\ [][component = "add" =>
            /\ \A k \in SubmitIds :
                 /\ submits[k].pc = "addUserRepository" /\ submits'[k].pc = "added" =>
                      /\ \E c \in calls : c.fn = "addUserRepository" /\ c.op = k
                      /\ \A key \in DraftKeys : LocalStorage'[key] = Undefined
                      /\ value' = [name |-> <<>>, owner |-> <<>>, description |-> <<>>,
                                   url |-> <<>>, isPrivate |-> False,
                                   defaultBranch |-> <<"m", "a", "i", "n">>]
                      /\ notified' = notified + 1
                      /\ popped' = popped + 1
                      /\ ~formOpen'
                 /\ submits[k].pc = "addUserRepository" /\ submits'[k].pc = "failed" =>
                      /\ LocalStorage' = LocalStorage
                      /\ value' = value
                      /\ notified' = notified
                      /\ popped' = popped
                      /\ formOpen' = formOpen
            /\ (notified' # notified \/ popped' # popped) =>
                 \E k \in SubmitIds :
                     submits[k].pc = "addUserRepository" /\ submits'[k].pc = "added"]_vars

\* C18 witness: a submission of the add form with a name and an owner typed,
\* and so stored as drafts, has succeeded: it made its calls, the drafts are
\* gone from storage, onAdded was called once and the form popped once.
C18_Witness ==
    /\ component = "add"
    /\ \E k \in SubmitIds :
          /\ submits[k].pc = "added"
          /\ submits[k].values.name = <<"a">>
          /\ StepOf(k, "clearNameDraft") = 1
          /\ StepOf(k, "pop") = 8
    /\ \A f \in AddFields : cleared[f] = "submit" <=> f \in {"name", "owner"}
    /\ \A key \in DraftKeys : LocalStorage[key] = Undefined
    /\ notified = 1
    /\ popped = 1
    /\ ~formOpen

\* Two index entries agree but for the day of the review
SameEntry(a, b) ==
    /\ a.path = b.path
    /\ a.title = b.title
    /\ a.tech = b.tech
    /\ a.version = b.version
    /\ a.status = b.status

\* C19: running the cheatsheet audit twice in a row on an unchanged directory
\* is idempotent.  The step that completes a run started after a run that had
\* completed finds that the run has archived no file and updated none, and
\* writes an index.json with the entries of the index.json the earlier run
\* wrote, with the same path, title, tech, version and status.
C19_SecondRunIdempotent ==
    [][(script = "audit" /\ scriptPc = "for" /\ scriptPc' = "done"
          /\ runs > 1 /\ exitCode = <<0>>) =>
          /\ result.archived = <<>>
          /\ result.updated = <<>>
          /\ \A i \in 1 .. Len(indexJson'.data) :
                \E j \in 1 .. Len(indexJson.data) :
                    SameEntry(indexJson.data[j], indexJson'.data[i])
          /\ \A j \in 1 .. Len(indexJson.data) :
                \E i \in 1 .. Len(indexJson'.data) :
                    SameEntry(indexJson.data[j], indexJson'.data[i])]_vars

\* The front-matter keys the audit requires
RequiredKeys == {"title", "tech", "status", "lastReviewed"}

\* The keys of a file's front-matter
Keys(file) == { file.fm[i].k : i \in 1 .. Len(file.fm) }

\* The names in the cheatsheets directory and in _archive
OnDisk(dir, archive) == DOMAIN dir \cup DOMAIN archive

\* What every turn of the audit's loop does to the files, whatever the file is:
\* no name disappears from disk, and no other file changes
TurnFrame(file) ==
    /\ OnDisk(cheatsheetsDir', archiveDir') = OnDisk(cheatsheetsDir, archiveDir)
    /\ \A name \in DOMAIN cheatsheetsDir \ {file} :
          name \in DOMAIN cheatsheetsDir' /\ cheatsheetsDir'[name] = cheatsheetsDir[name]
    /\ \A name \in DOMAIN archiveDir \ {file} :
          name \in DOMAIN archiveDir' /\ archiveDir'[name] = archiveDir[name]

\* An outdated file is moved to _archive with its content unchanged
TurnArchives(file) ==
    /\ file \notin DOMAIN cheatsheetsDir'
    /\ file \in DOMAIN archiveDir'
    /\ archiveDir'[file] = cheatsheetsDir[file]

\* C20 as stated: the cheatsheet audit rewrites a file only when needed and
\* never deletes one.  In a turn of the loop a non-outdated file whose
\* front-matter has title, tech, status and lastReviewed is left unchanged; a
\* non-outdated file missing any of them is rewritten in place with those
\* four fields set, every other front-matter field and the body as they were;
\* an outdated file is moved to _archive unchanged.
C20_Original ==
    [][\A a \in audited' \ audited :
          LET old == a.content
              new == cheatsheetsDir'[a.file]
              outdated == isOutdated(a.file, a.content)
          IN /\ TurnFrame(a.file)
             /\ outdated => TurnArchives(a.file)
             /\ (~outdated /\ RequiredKeys \subseteq Keys(old)) =>
                   UNCHANGED <<cheatsheetsDir, archiveDir>>
             /\ (~outdated /\ ~(RequiredKeys \subseteq Keys(old))) =>
                   /\ archiveDir' = archiveDir
                   /\ a.file \in DOMAIN cheatsheetsDir'
                   /\ \A key \in RequiredKeys : data(new, key) = a.metadata[key]
                   /\ \A key \in Keys(old) \ RequiredKeys : data(new, key) = data(old, key)
                   /\ new.body = old.body]_vars

\* C20 as amended: the same, except that the rewritten file also has its
\* version field set when the audit found a version, and that its body is
\* given a final line break when it had none.
C20_RewritesOnlyWhenNeeded ==
    [][\A a \in audited' \ audited :
          LET old == a.content
              new == cheatsheetsDir'[a.file]
              outdated == isOutdated(a.file, a.content)
          IN /\ TurnFrame(a.file)
             /\ outdated => TurnArchives(a.file)
             /\ (~outdated /\ RequiredKeys \subseteq Keys(old)) =>
                   UNCHANGED <<cheatsheetsDir, archiveDir>>
             /\ (~outdated /\ ~(RequiredKeys \subseteq Keys(old))) =>
                   /\ archiveDir' = archiveDir
                   /\ a.file \in DOMAIN cheatsheetsDir'
                   /\ \A key \in RequiredKeys : data(new, key) = a.metadata[key]
                   /\ \A key \in Keys(old) \ (RequiredKeys \cup {"version"}) :
                         data(new, key) = data(old, key)
                   /\ data(new, "version") =
                         IF a.metadata.version = Undefined THEN data(old, "version")
                         ELSE a.metadata.version
                   /\ Keys(new) \subseteq Keys(old) \cup RequiredKeys \cup {"version"}
                   /\ new.body \in {old.body, old.body \o <<"\n">>}
                   /\ new.body = old.body <=>
                         (old.body # <<>> /\ old.body[Len(old.body)] = "\n")]_vars

\* C20 witness: the audit has rewritten a file that had a field of its
\* author's and lacked the required ones: the field is still there, the four
\* required fields are set, and the body is as it was.
C20_Witness ==
    \E a \in audited :
        /\ a.list = "updated"
        /\ a.file \in DOMAIN cheatsheetsDir
        /\ Keys(a.content) = {"tags"}
        /\ data(cheatsheetsDir[a.file], "tags") = data(a.content, "tags")
        /\ RequiredKeys \subseteq Keys(cheatsheetsDir[a.file])
        /\ cheatsheetsDir[a.file].body = a.content.body

\* The operations that change the store: a remove or a sync
Changing(o) == o \in OpIds /\ ops[o].fn \in {"handleDeleteRepo", "SyncRepository"}

\* The reload call of an operation has been made
Reloading(o) == \E c \in calls : c.fn = "getUserRepositories" /\ c.op = o

\* A list shows what the operation did: the removed record is gone, the synced
\* record, if still tracked, carries its stamp
ShowsEffectOf(list, op) ==
    IF op.fn = "handleDeleteRepo" THEN op.id \notin list.ids
    ELSE op.id \in list.ids => op.id \in list.synced

\* C21: after a successful remove or sync the displayed list is reloaded from
\* the service.  The reload call of a remove or sync is made in the step in
\* which the remove or sync call resolves, never before, and it returns the
\* store as that call left it; and in the step in which a confirmed remove or
\* a sync completes without error, no other operation being pending then, the
\* displayed list becomes the list its reload returned, which shows what the
\* operation did.
C21_ReloadedAfterRemoveOrSync ==
    /\ [](component = "panel" =>
            \A o \in OpIds :
                (Changing(o) /\ Reloading(o)) =>
                    /\ ops[o].pc \in {"getUserRepositories", "done", "failed"}
                    /\ ops[o].loadNo > 0
                    /\ ShowsEffectOf(ops[o].result, ops[o]))
    /\ [][component = "panel" =>
            \A o \in OpIds :
                /\ (Changing(o) /\ ~Reloading(o) /\ Reloading(o)') =>
                      /\ ops[o].pc \in {"removeUserRepository", "syncRepositoryFiles"}
                      /\ ops'[o].pc = "getUserRepositories"
                      /\ store' = IF ops[o].fn = "handleDeleteRepo"
                                  THEN removeUserRepository(store, ops[o].id)
                                  ELSE syncRepositoryFiles(store, ops[o].id)
                      /\ ops'[o].result = store'
                /\ (Changing(o) /\ ops[o].pc # "done" /\ ops'[o].pc = "done"
                      /\ ops'[o].confirmed # "no" /\ Quiescent') =>
                      /\ Reloading(o)
                      /\ repos' = ops'[o].result
                      /\ ShowsEffectOf(repos', ops'[o])]_vars

\* C21 witness: a sync and a confirmed remove have both completed without
\* error, nothing is pending, and the displayed list is the store's: the
\* removed record is gone from it.
C21_Witness ==
    /\ component = "panel"
    /\ Quiescent
    /\ \E o, p \in OpIds :
          /\ ops[o].fn = "handleDeleteRepo" /\ ops[o].pc = "done" /\ ops[o].confirmed = "yes"
          /\ ops[p].fn = "SyncRepository" /\ ops[p].pc = "done"
          /\ ops[o].id \notin repos.ids
    /\ repos = store
    /\ repos.synced # {}

====
